---- MODULE Spec2Model ----
(***************************************************************************)
(* A model of the MT5 gateway: the connection lifecycle manager            *)
(* (app/mt5_connection.py), the connection guard (app/decorators.py), the  *)
(* health endpoints (app/routes/health.py) and the write handlers of       *)
(* app/routes/order.py, app/routes/position.py and app/lib.py.             *)
(*                                                                         *)
(* Every request is run by a thread t.  A thread is at a position pc[t]    *)
(* of the code; venue calls (the MetaTrader5 package) answer               *)
(* nondeterministically.                                                   *)
(***************************************************************************)
EXTENDS Integers, Sequences, FiniteSets, TLC

\* ------------------------------------------------------------------ bounds

\* Largest MT5_RECONNECT_ATTEMPTS explored (the code's default is 3).
MaxReconnectAttempts == 3
\* Largest MT5_RECONNECT_BASE_DELAY explored, in whole seconds.
MaxBaseDelay == 2

\* Largest volume given to validate_volume on its own, in hundredths of a lot.
MaxVolume == 600

\* Largest price, in points, given to the price validators on their own.
MaxPrice == 5
\* Largest SYMBOL_FILLING_MODE bitmask explored.
MaxFillingMask == 7

\* Largest number of open positions the venue lists.
MaxPositions == 2

\* Two request threads: enough for every interleaving of two callers.
Threads == {1, 2}

\* Largest number of threads calling MT5Connection.get_instance() at once.
MaxCallers == 3
Callers == 1..MaxCallers

VARIABLES
    status,                  \* MT5Connection._status
    last_error,              \* MT5Connection._last_error
    max_reconnect_attempts,  \* MT5Connection._max_reconnect_attempts
    base_delay,              \* MT5Connection._base_delay
    pc,                      \* pc[t]: where thread t is in the code
    op,                      \* op[t]: the operation thread t runs
    attempt,                 \* attempt[t]: initialize()'s local `attempt`
    ret,                     \* ret[t]: value returned by ensure_connection()/initialize()
    pend,                    \* pend[t]: _set_status's `error`, not yet stored
    cont,                    \* cont[t]: where t continues after _set_status
    logins,                  \* logins[t]: mt5.initialize() calls of t's operation
    logouts,                 \* logouts[t]: answers of the mt5.shutdown() calls of t's operation
    sleeps,                  \* sleeps[t]: the time.sleep() delays of t's operation
    last_att,                \* last_att[t]: venue answers of t's last login attempt
    probe,                   \* probe[t]: answer of ensure_connection's account_info()
    recording,               \* whether the history above is kept
    resp,                    \* resp[t]: the HTTP response of t's operation
    body,                    \* body[t]: whether the guarded handler was called
    req,                     \* req[t]: the request data the handler read
    ven,                     \* ven[t]: the venue answers the handler read
    sends,                   \* sends[t]: the requests given to mt5.order_send()
    todo,                    \* todo[t]: close_all_positions' rows not yet iterated
    results,                 \* results[t]: close_all_positions' `results`
    fn,                      \* the last call of a validator or classifier on its own
    instance,                \* MT5Connection._instance: 0 for None, else the object
    lock,                    \* MT5Connection._lock: 0 when free, else its holder
    built,                   \* the MT5Connection objects constructed so far
    ipc,                     \* ipc[c]: where caller c is in get_instance()
    made,                    \* made[c]: the object cls() gave c, not yet stored
    got,                     \* got[c]: what get_instance() returned to c, 0 before
    venue                    \* the venue: "up", "down", or "any" when it may change

inst_vars == <<instance, lock, built, ipc, made, got>>
cfg_vars == <<max_reconnect_attempts, base_delay, recording, fn, inst_vars, venue>>
conn_vars == <<status, last_error, cfg_vars>>
call_vars == <<pc, op, attempt, ret, pend, cont>>
api_vars == <<body, req, ven, sends, todo, results>>
hist_vars == <<logins, logouts, sleeps, last_att, probe, api_vars>>
vars == <<conn_vars, call_vars, hist_vars, resp>>

\* ------------------------------------------------------ ConnectionStatus

DISCONNECTED == "disconnected"
CONNECTED == "connected"
RECONNECTING == "reconnecting"
ConnectionStatus == {DISCONNECTED, CONNECTED, RECONNECTING}

\* ------------------------------------------------------------ diagnostics

\* The values of _last_error: None, or one of the messages the code builds.
Err(kind, k, n) == [kind |-> kind, attempt |-> k, of |-> n]
NoError == Err("None", 0, 0)
ReconnectingMsg(k, n) == Err("Reconnection attempt k/n", k, n)
InitFailedMsg == Err("MT5 initialization failed", 0, 0)
InitExceptionMsg == Err("Exception during MT5 initialization", 0, 0)
FinalErrorMsg(n) == Err("Failed to initialize MT5 after n attempts", 0, n)
ConnectionLostMsg == Err("Connection lost", 0, 0)
ProbeExceptionMsg == Err("str(e)", 0, 0)

\* ----------------------------------------------------------- responses

\* An HTTP response: the status code and, of the JSON body, error_type, the
\* error message and mt5_status ("absent" for a key the body does not have).
\* retcode is the venue return code the body echoes (mt5_error.retcode), if any.
Response(code, error_type, error, mt5_status) ==
    [code |-> code, error_type |-> error_type, error |-> error,
     mt5_status |-> mt5_status, retcode |-> <<>>]
NoResponse == Response(0, "absent", "absent", "absent")

\* jsonify(...) with no status code: 200.
Success(message) == Response(200, "absent", message, "absent")

\* validation_error_response: 400, error_type "validation_error".
validation_error_response(message) ==
    Response(400, "validation_error", message, "absent")

\* not_found_response: 404, error_type "not_found".
not_found_response(resource) ==
    Response(404, "not_found", resource, "absent")

\* internal_error_response: 500; the body has no error_type key.
internal_error_response(operation) ==
    Response(500, "absent", "Internal server error", "absent")

\* Codes of mt5.last_error() and retcodes that mt5_error_response takes for a
\* lost connection.
ConnectionErrorCodes == {10004, 10005, 10006}
ConnectionRetcodes == {10018, 10019, 10020}

\* mt5_error_response that looks at the diagnostic code only.
mt5_error_response_code_only(operation, retcode, error_code) ==
    [(IF error_code \in ConnectionErrorCodes
        THEN Response(503, "connection_error", operation, "absent")
        ELSE Response(400, "mt5_rejected", operation, "absent"))
     EXCEPT !.retcode = <<retcode>>]

\* mt5_error_response: 503 connection_error for the codes above, otherwise
\* 400 mt5_rejected.
mt5_error_response(operation, retcode, error_code) ==
    [(IF error_code \in ConnectionErrorCodes \/ retcode \in ConnectionRetcodes
        THEN Response(503, "connection_error", operation, "absent")
        ELSE Response(400, "mt5_rejected", operation, "absent"))
     EXCEPT !.retcode = <<retcode>>]

\* What Flask answers when a view returns ((response, 400), 400): the
\* return value is not a valid response, which is a server error raised
\* outside the view's try block.
InvalidViewReturn ==
    Response(500, "absent", "view did not return a valid response", "absent")

\* -------------------------------------------------------------- venue

\* mt5.initialize(): True, False, or an exception.
HandshakeAnswers == {"ok", "fail", "raise"}
\* mt5.account_info(): an account, None, or an exception.
AccountInfoAnswers == {"data", "empty", "raise"}
\* mt5.last_error(): a (code, text) pair, or an exception.
LastErrorAnswers == {"ok", "raise"}
\* mt5.shutdown(): returns, or an exception.
LogoutAnswers == {"ok", "raise"}

NoAttempt ==
    [handshake |-> "uncalled", account_info |-> "uncalled", last_error |-> "uncalled"]

\* What the venue may answer to a login (mt5.initialize() then
\* mt5.account_info()): a venue that is up accepts it, a venue that is down
\* fails it one way or another, a venue that may change does either.
LoginAnswer(h, a) ==
    /\ venue = "up" => (h = "ok" /\ a = "data")
    /\ venue = "down" => ~(h = "ok" /\ a = "data")

\* What the venue may answer to mt5.account_info() on its own.
AccountAnswer(a) ==
    /\ venue = "up" => a = "data"
    /\ venue = "down" => a # "data"

\* ------------------------------------------------------ MetaTrader5 values

ORDER_TYPE_BUY == 0
ORDER_TYPE_SELL == 1
ORDER_TYPE_BUY_LIMIT == 2
ORDER_TYPE_SELL_LIMIT == 3
ORDER_TYPE_BUY_STOP == 4
ORDER_TYPE_SELL_STOP == 5

ORDER_FILLING_FOK == 0
ORDER_FILLING_IOC == 1
ORDER_FILLING_RETURN == 2

TRADE_RETCODE_DONE == 10009
\* A rejection of the order (invalid stops) and one of the retcodes that
\* mt5_error_response takes for a lost connection (market closed).
TRADE_RETCODE_INVALID_STOPS == 10016
TRADE_RETCODE_MARKET_CLOSED == 10018

TRADE_ACTION_DEAL == "TRADE_ACTION_DEAL"
TRADE_ACTION_PENDING == "TRADE_ACTION_PENDING"
TRADE_ACTION_SLTP == "TRADE_ACTION_SLTP"
TRADE_ACTION_MODIFY == "TRADE_ACTION_MODIFY"
TRADE_ACTION_REMOVE == "TRADE_ACTION_REMOVE"

\* ORDER_TYPE_MAP of send_market_order_endpoint.
ORDER_TYPE_MAP ==
    [s \in {"BUY", "SELL", "BUY_LIMIT", "SELL_LIMIT", "BUY_STOP", "SELL_STOP"} |->
        CASE s = "BUY" -> ORDER_TYPE_BUY
          [] s = "SELL" -> ORDER_TYPE_SELL
          [] s = "BUY_LIMIT" -> ORDER_TYPE_BUY_LIMIT
          [] s = "SELL_LIMIT" -> ORDER_TYPE_SELL_LIMIT
          [] s = "BUY_STOP" -> ORDER_TYPE_BUY_STOP
          [] s = "SELL_STOP" -> ORDER_TYPE_SELL_STOP]

\* ORDER_TYPE_TO_STRING.get(order_type, "").
ORDER_TYPE_TO_STRING(order_type) ==
    CASE order_type = ORDER_TYPE_BUY -> "BUY"
      [] order_type = ORDER_TYPE_SELL -> "SELL"
      [] order_type = ORDER_TYPE_BUY_LIMIT -> "BUY_LIMIT"
      [] order_type = ORDER_TYPE_SELL_LIMIT -> "SELL_LIMIT"
      [] order_type = ORDER_TYPE_BUY_STOP -> "BUY_STOP"
      [] order_type = ORDER_TYPE_SELL_STOP -> "SELL_STOP"
      [] OTHER -> ""

\* An optional value: a JSON key that may be missing, or Python's None.
Absent == <<>>
Some(x) == <<x>>
Present(o) == Len(o) > 0
Value(o) == o[1]
\* data.get(key, default)
Get(o, default) == IF Present(o) THEN Value(o) ELSE default

Abs(x) == IF x < 0 THEN -x ELSE x

\* ------------------------------------------------------- venue answers

\* A venue call that has not been made, one that returned None, one that
\* raised.
Uncalled == [got |-> "uncalled"]
None == [got |-> "none"]
Raised == [got |-> "raise"]

\* mt5.symbol_info(): volumes in hundredths of a lot, prices in points.
SymbolInfo(volume_min, volume_max, volume_step, trade_freeze_level, point, filling_mode) ==
    [got |-> "value", volume_min |-> volume_min, volume_max |-> volume_max,
     volume_step |-> volume_step, trade_freeze_level |-> trade_freeze_level,
     point |-> point, filling_mode |-> filling_mode]

\* mt5.symbol_info_tick()
Tick(bid, ask) == [got |-> "value", bid |-> bid, ask |-> ask]

\* mt5.order_send(): a result with its retcode.
OrderResult(retcode) == [got |-> "value", retcode |-> retcode]

\* mt5.last_error()[0]
LastError(code) == [got |-> "value", code |-> code]

\* What a handler has read of the venue: one entry per call site.  closes
\* holds the reads of each close_position() call.
NoVenue ==
    [account_info |-> Uncalled, symbol_select |-> Uncalled,
     volume_info |-> Uncalled, tick |-> Uncalled, price_info |-> Uncalled,
     filling_info |-> Uncalled, orders_get |-> Uncalled,
     positions_total |-> Uncalled,
     positions_get |-> Uncalled, order_send |-> Uncalled,
     order_check |-> Uncalled, order_calc |-> Uncalled,
     last_error |-> Uncalled, closes |-> <<>>]

\* No request data read.
NoRequest == [kind |-> "none"]

\* ---------------------------------------------------------- validators

\* The (bool, message) pair the validators return.
Valid == [valid |-> TRUE, error |-> "None"]
Invalid(message) == [valid |-> FALSE, error |-> message]

\* Python's round() of the quotient n / d, d > 0: the nearest integer, a tie
\* going to the even one.
round(n, d) ==
    LET q == n \div d
        r == n % d
    IN  IF 2 * r < d THEN q
        ELSE IF 2 * r > d THEN q + 1
        ELSE IF q % 2 = 0 THEN q ELSE q + 1

\* validate_volume without the check of the step.
validate_volume_range_only(symbol_info, volume) ==
    IF symbol_info.got = "none" THEN Invalid("Symbol info unavailable")
    ELSE IF volume < symbol_info.volume_min THEN Invalid("Volume below minimum")
    ELSE IF volume > symbol_info.volume_max THEN Invalid("Volume exceeds maximum")
    ELSE Valid

\* validate_volume, symbol_info being the answer of its mt5.symbol_info().
\* abs(volume - expected_volume) > volume_step * 0.01 is compared after
\* multiplying both sides by 100.
validate_volume(symbol_info, volume) ==
    IF symbol_info.got = "none" THEN Invalid("Symbol info unavailable")
    ELSE IF volume < symbol_info.volume_min THEN Invalid("Volume below minimum")
    ELSE IF volume > symbol_info.volume_max THEN Invalid("Volume exceeds maximum")
    ELSE LET volume_step == symbol_info.volume_step
             steps == round(volume - symbol_info.volume_min, volume_step)
             expected_volume == symbol_info.volume_min + (steps * volume_step)
         IN  IF volume_step > 0 /\ Abs(volume - expected_volume) * 100 > volume_step
               THEN Invalid("Volume must be in steps")
               ELSE Valid

\* validate_sl_tp that lets a stop level equal the entry price.
validate_sl_tp_non_strict(order_type, price, sl, tp) ==
    LET is_buy == order_type \in
            {ORDER_TYPE_BUY, ORDER_TYPE_BUY_LIMIT, ORDER_TYPE_BUY_STOP}
    IN  IF Present(sl) /\ Value(sl) <= 0
          THEN Invalid("Stop loss must be positive")
        ELSE IF Present(sl) /\ is_buy /\ Value(sl) > price
          THEN Invalid("For BUY orders, SL must be below entry price")
        ELSE IF Present(sl) /\ ~is_buy /\ Value(sl) < price
          THEN Invalid("For SELL orders, SL must be above entry price")
        ELSE IF Present(tp) /\ Value(tp) <= 0
          THEN Invalid("Take profit must be positive")
        ELSE IF Present(tp) /\ is_buy /\ Value(tp) < price
          THEN Invalid("For BUY orders, TP must be above entry price")
        ELSE IF Present(tp) /\ ~is_buy /\ Value(tp) > price
          THEN Invalid("For SELL orders, TP must be below entry price")
        ELSE Valid

\* validate_sl_tp; sl and tp are optional.
validate_sl_tp(order_type, price, sl, tp) ==
    LET is_buy == order_type \in
            {ORDER_TYPE_BUY, ORDER_TYPE_BUY_LIMIT, ORDER_TYPE_BUY_STOP}
    IN  IF Present(sl) /\ Value(sl) <= 0
          THEN Invalid("Stop loss must be positive")
        ELSE IF Present(sl) /\ is_buy /\ Value(sl) >= price
          THEN Invalid("For BUY orders, SL must be below entry price")
        ELSE IF Present(sl) /\ ~is_buy /\ Value(sl) <= price
          THEN Invalid("For SELL orders, SL must be above entry price")
        ELSE IF Present(tp) /\ Value(tp) <= 0
          THEN Invalid("Take profit must be positive")
        ELSE IF Present(tp) /\ is_buy /\ Value(tp) <= price
          THEN Invalid("For BUY orders, TP must be above entry price")
        ELSE IF Present(tp) /\ ~is_buy /\ Value(tp) >= price
          THEN Invalid("For SELL orders, TP must be below entry price")
        ELSE Valid

\* "BUY" in type_str
IsBuyName(type_str) == type_str \in {"BUY", "BUY_LIMIT", "BUY_STOP"}

\* validate_pending_price without the check of the freeze level.
validate_pending_price_no_freeze(order_type, tick, symbol_info, price) ==
    IF tick.got = "none" THEN Invalid("Unable to get current price")
    ELSE IF symbol_info.got = "none" THEN Invalid("Symbol info unavailable")
    ELSE IF order_type = ORDER_TYPE_BUY_LIMIT /\ price >= tick.ask
      THEN Invalid("BUY_LIMIT price must be below current ask")
    ELSE IF order_type = ORDER_TYPE_SELL_LIMIT /\ price <= tick.bid
      THEN Invalid("SELL_LIMIT price must be above current bid")
    ELSE IF order_type = ORDER_TYPE_BUY_STOP /\ price <= tick.ask
      THEN Invalid("BUY_STOP price must be above current ask")
    ELSE IF order_type = ORDER_TYPE_SELL_STOP /\ price >= tick.bid
      THEN Invalid("SELL_STOP price must be below current bid")
    ELSE Valid

\* validate_pending_price, tick and symbol_info being the answers of its
\* mt5.symbol_info_tick() and mt5.symbol_info().
validate_pending_price(order_type, tick, symbol_info, price) ==
    IF tick.got = "none" THEN Invalid("Unable to get current price")
    ELSE IF symbol_info.got = "none" THEN Invalid("Symbol info unavailable")
    ELSE LET freeze_level == symbol_info.trade_freeze_level * symbol_info.point
             type_str == ORDER_TYPE_TO_STRING(order_type)
             current_price == IF IsBuyName(type_str) THEN tick.ask ELSE tick.bid
         IN  IF Abs(price - current_price) < freeze_level
               THEN Invalid("Price too close to market")
             ELSE IF order_type = ORDER_TYPE_BUY_LIMIT /\ price >= tick.ask
               THEN Invalid("BUY_LIMIT price must be below current ask")
             ELSE IF order_type = ORDER_TYPE_SELL_LIMIT /\ price <= tick.bid
               THEN Invalid("SELL_LIMIT price must be above current bid")
             ELSE IF order_type = ORDER_TYPE_BUY_STOP /\ price <= tick.ask
               THEN Invalid("BUY_STOP price must be above current ask")
             ELSE IF order_type = ORDER_TYPE_SELL_STOP /\ price >= tick.bid
               THEN Invalid("SELL_STOP price must be below current bid")
             ELSE Valid

\* Bit b (1, 2 or 4) of filling_mode: filling_mode & b.
BitAnd(filling_mode, b) == IF (filling_mode \div b) % 2 = 1 THEN b ELSE 0

\* get_symbol_filling_mode trying FOK (bit 1) before IOC and RETURN.
get_symbol_filling_mode_fok_first(symbol_info) ==
    IF symbol_info.got = "none" THEN ORDER_FILLING_RETURN
    ELSE IF BitAnd(symbol_info.filling_mode, 1) # 0 THEN ORDER_FILLING_FOK
    ELSE IF BitAnd(symbol_info.filling_mode, 2) # 0 THEN ORDER_FILLING_IOC
    ELSE ORDER_FILLING_RETURN

\* get_symbol_filling_mode, symbol_info being the answer of its
\* mt5.symbol_info().
get_symbol_filling_mode(symbol_info) ==
    IF symbol_info.got = "none" THEN ORDER_FILLING_RETURN
    ELSE IF BitAnd(symbol_info.filling_mode, 2) # 0 THEN ORDER_FILLING_IOC
    ELSE IF BitAnd(symbol_info.filling_mode, 4) # 0 THEN ORDER_FILLING_RETURN
    ELSE IF BitAnd(symbol_info.filling_mode, 1) # 0 THEN ORDER_FILLING_FOK
    ELSE ORDER_FILLING_RETURN

\* ------------------------------------------------------------ operations

\* Operations that are not behind the connection guard.
UnguardedOps == {"initialize", "shutdown", "ready", "health", "live"}
\* Operations behind @require_mt5_connection.
GuardedOps ==
    {"account", "order", "cancel_order", "modify_order", "close_position",
     "close_partial", "close_all", "modify_sl_tp", "order_check",
     "order_calc_margin", "order_calc_profit", "orders", "positions_total"}
\* The operations of the connection manager and its probes.
Ops == UnguardedOps \cup {"account"}

\* ------------------------------------------------------------------ Init

\* No validator or classifier has been called on its own.
NoCall == [name |-> "none"]

\* No caller is in get_instance().
NoCaller ==
    /\ lock = 0
    /\ ipc = [c \in Callers |-> "idle"]
    /\ made = [c \in Callers |-> 0]
    /\ got = [c \in Callers |-> 0]

\* The two settings read from the environment; no thread has begun an
\* operation.
Idle ==
    /\ max_reconnect_attempts \in 1..MaxReconnectAttempts
    /\ base_delay \in 1..MaxBaseDelay
    /\ pc = [t \in Threads |-> "idle"]
    /\ op = [t \in Threads |-> "none"]
    /\ attempt = [t \in Threads |-> 0]
    /\ ret = [t \in Threads |-> "unset"]
    /\ pend = [t \in Threads |-> NoError]
    /\ cont = [t \in Threads |-> "idle"]
    /\ logins = [t \in Threads |-> 0]
    /\ logouts = [t \in Threads |-> <<>>]
    /\ sleeps = [t \in Threads |-> <<>>]
    /\ last_att = [t \in Threads |-> NoAttempt]
    /\ probe = [t \in Threads |-> "uncalled"]
    /\ resp = [t \in Threads |-> NoResponse]
    /\ body = [t \in Threads |-> FALSE]
    /\ req = [t \in Threads |-> NoRequest]
    /\ ven = [t \in Threads |-> NoVenue]
    /\ sends = [t \in Threads |-> <<>>]
    /\ todo = [t \in Threads |-> <<>>]
    /\ results = [t \in Threads |-> <<>>]
    /\ fn = NoCall

\* The fields MT5Connection.__init__ sets: disconnected, no error, and the
\* two settings.
Fields ==
    /\ status = DISCONNECTED
    /\ last_error = NoError
    /\ Idle

\* The state after the first get_instance(): the object is the first one
\* constructed and is stored in _instance.
Constructed ==
    /\ instance = 1
    /\ built = 1
    /\ NoCaller
    /\ Fields
    /\ venue = "any"

\* One caller: the history of each operation (its venue calls, its sleeps)
\* is kept.
Init == Constructed /\ recording = TRUE

\* Interleaved callers: only the program's own state is kept.
InitConc == Constructed /\ recording = FALSE

\* History variable h with thread t's entry set to v, when history is kept.
Record(h, t, v) == IF recording THEN [h EXCEPT ![t] = v] ELSE h

\* ------------------------------------------------------- MT5Connection

is_connected == status = CONNECTED

\* _set_status, first assignment: self._status = new_status.  The second
\* assignment is set_status_error, a later step of the same thread.
set_status(t, new_status, error, next) ==
    /\ status' = new_status
    /\ pend' = [pend EXCEPT ![t] = error]
    /\ cont' = [cont EXCEPT ![t] = next]
    /\ pc' = [pc EXCEPT ![t] = "set_error"]
    /\ UNCHANGED last_error

\* _set_status, second assignment: self._last_error = error.
set_status_error(t) ==
    /\ pc[t] = "set_error"
    /\ last_error' = pend[t]
    /\ pc' = [pc EXCEPT ![t] = cont[t]]
    /\ UNCHANGED <<status, cfg_vars>>
    /\ UNCHANGED <<op, attempt, ret, pend, cont>>
    /\ UNCHANGED <<hist_vars, resp>>

\* Where initialize() returns to: the caller of conn.initialize() at
\* start-up is done; ensure_connection() returns the value to the guard.
AfterInitialize(t) == IF op[t] = "initialize" THEN "done" ELSE "guard"

\* Delay with the exponent off by one.
Delay_from_attempt(k) == base_delay * (2 ^ k)

\* The delay initialize() sleeps after failed attempt k.
Delay(k) == base_delay * (2 ^ (k - 1))

\* initialize_loop with the while test off by one (attempt <= max).
initialize_loop_one_more(t) ==
    /\ pc[t] = "init_loop"
    /\ IF attempt[t] <= max_reconnect_attempts
         THEN /\ attempt' = [attempt EXCEPT ![t] = attempt[t] + 1]
              /\ IF attempt[t] + 1 > 1
                   THEN set_status(t, RECONNECTING,
                          ReconnectingMsg(attempt[t] + 1, max_reconnect_attempts),
                          "init_login")
                   ELSE /\ pc' = [pc EXCEPT ![t] = "init_login"]
                        /\ UNCHANGED <<status, last_error, pend, cont>>
              /\ UNCHANGED ret
         ELSE /\ set_status(t, DISCONNECTED, FinalErrorMsg(max_reconnect_attempts),
                            AfterInitialize(t))
              /\ ret' = [ret EXCEPT ![t] = "false"]
              /\ UNCHANGED attempt
    /\ UNCHANGED <<cfg_vars, op, hist_vars, resp>>

\* initialize_loop setting RECONNECTING before the first attempt too.
initialize_loop_reconnecting_first(t) ==
    /\ pc[t] = "init_loop"
    /\ IF attempt[t] < max_reconnect_attempts
         THEN /\ attempt' = [attempt EXCEPT ![t] = attempt[t] + 1]
              /\ set_status(t, RECONNECTING,
                    ReconnectingMsg(attempt[t] + 1, max_reconnect_attempts),
                    "init_login")
              /\ UNCHANGED ret
         ELSE /\ set_status(t, DISCONNECTED, FinalErrorMsg(max_reconnect_attempts),
                            AfterInitialize(t))
              /\ ret' = [ret EXCEPT ![t] = "false"]
              /\ UNCHANGED attempt
    /\ UNCHANGED <<cfg_vars, op, hist_vars, resp>>

\* initialize(): the while test, `attempt += 1`, and the RECONNECTING
\* status of every attempt after the first; after the loop, the final error.
initialize_loop(t) ==
    /\ pc[t] = "init_loop"
    /\ IF attempt[t] < max_reconnect_attempts
         THEN /\ attempt' = [attempt EXCEPT ![t] = attempt[t] + 1]
              /\ IF attempt[t] + 1 > 1
                   THEN set_status(t, RECONNECTING,
                          ReconnectingMsg(attempt[t] + 1, max_reconnect_attempts),
                          "init_login")
                   ELSE /\ pc' = [pc EXCEPT ![t] = "init_login"]
                        /\ UNCHANGED <<status, last_error, pend, cont>>
              /\ UNCHANGED ret
         ELSE /\ set_status(t, DISCONNECTED, FinalErrorMsg(max_reconnect_attempts),
                            AfterInitialize(t))
              /\ ret' = [ret EXCEPT ![t] = "false"]
              /\ UNCHANGED attempt
    /\ UNCHANGED <<cfg_vars, op, hist_vars, resp>>

\* AttemptOutcome without the test of account_info(): a handshake alone
\* counts as success.
AttemptOutcome_handshake_only(h, a, e) ==
    IF h = "raise" THEN "exception"
    ELSE IF h = "ok" /\ a = "raise" THEN "exception"
    ELSE IF h = "ok" THEN "success"
    ELSE IF e = "raise" THEN "exception"
    ELSE "failed"

\* What one pass of the try block makes of the venue's answers:
\* mt5.initialize() (h), mt5.account_info() (a, called when h is True) and
\* mt5.last_error() (e, called when the attempt did not succeed).
AttemptOutcome(h, a, e) ==
    IF h = "raise" THEN "exception"
    ELSE IF h = "ok" /\ a = "raise" THEN "exception"
    ELSE IF h = "ok" /\ a = "data" THEN "success"
    ELSE IF e = "raise" THEN "exception"
    ELSE "failed"

\* initialize_attempt with no except clause: the venue's exception leaves
\* initialize() and the caller answers 500.
initialize_attempt_uncaught(t) ==
    /\ pc[t] = "init_login"
    /\ \E h \in HandshakeAnswers, a \in AccountInfoAnswers, e \in LastErrorAnswers :
         /\ LoginAnswer(h, a)
         /\ logins' = Record(logins, t, logins[t] + 1)
         /\ last_att' = Record(last_att, t,
               [handshake |-> h,
                account_info |-> IF h = "ok" THEN a ELSE "uncalled",
                last_error |-> IF h = "fail" \/ (h = "ok" /\ a = "empty")
                                 THEN e ELSE "uncalled"])
         /\ CASE AttemptOutcome(h, a, e) = "success" ->
                   /\ set_status(t, CONNECTED, NoError, AfterInitialize(t))
                   /\ ret' = [ret EXCEPT ![t] = "true"]
                   /\ UNCHANGED resp
              [] AttemptOutcome(h, a, e) = "failed" ->
                   /\ set_status(t, DISCONNECTED, InitFailedMsg, "init_backoff")
                   /\ UNCHANGED <<ret, resp>>
              [] AttemptOutcome(h, a, e) = "exception" ->
                   /\ pc' = [pc EXCEPT ![t] = "done"]
                   /\ resp' = [resp EXCEPT ![t] =
                         Response(500, "absent", "Internal Server Error", "absent")]
                   /\ UNCHANGED <<status, last_error, pend, cont, ret>>
    /\ UNCHANGED <<cfg_vars, op, attempt>>
    /\ UNCHANGED <<logouts, sleeps, probe, api_vars>>

\* initialize(): the try block of one attempt.
initialize_attempt(t) ==
    /\ pc[t] = "init_login"
    /\ \E h \in HandshakeAnswers, a \in AccountInfoAnswers, e \in LastErrorAnswers :
         /\ LoginAnswer(h, a)
         /\ logins' = Record(logins, t, logins[t] + 1)
         /\ last_att' = Record(last_att, t,
               [handshake |-> h,
                account_info |-> IF h = "ok" THEN a ELSE "uncalled",
                last_error |-> IF h = "fail" \/ (h = "ok" /\ a = "empty")
                                 THEN e ELSE "uncalled"])
         /\ CASE AttemptOutcome(h, a, e) = "success" ->
                   /\ set_status(t, CONNECTED, NoError, AfterInitialize(t))
                   /\ ret' = [ret EXCEPT ![t] = "true"]
              [] AttemptOutcome(h, a, e) = "failed" ->
                   /\ set_status(t, DISCONNECTED, InitFailedMsg, "init_backoff")
                   /\ UNCHANGED ret
              [] AttemptOutcome(h, a, e) = "exception" ->
                   /\ set_status(t, DISCONNECTED, InitExceptionMsg, "init_backoff")
                   /\ UNCHANGED ret
    /\ UNCHANGED <<cfg_vars, op, attempt>>
    /\ UNCHANGED <<logouts, sleeps, probe, resp, api_vars>>

\* initialize_backoff that sleeps after the last attempt too.
initialize_backoff_after_last(t) ==
    /\ pc[t] = "init_backoff"
    /\ sleeps' = Record(sleeps, t, Append(sleeps[t], Delay(attempt[t])))
    /\ pc' = [pc EXCEPT ![t] = "init_loop"]
    /\ UNCHANGED <<conn_vars, op, attempt, ret, pend, cont>>
    /\ UNCHANGED <<logins, logouts, last_att, probe, resp, api_vars>>

\* initialize(): the sleep after a failed attempt that is not the last.
initialize_backoff(t) ==
    /\ pc[t] = "init_backoff"
    /\ sleeps' = Record(sleeps, t,
          IF attempt[t] < max_reconnect_attempts
            THEN Append(sleeps[t], Delay(attempt[t]))
            ELSE sleeps[t])
    /\ pc' = [pc EXCEPT ![t] = "init_loop"]
    /\ UNCHANGED <<conn_vars, op, attempt, ret, pend, cont>>
    /\ UNCHANGED <<logins, logouts, last_att, probe, resp, api_vars>>

\* ensure_connection that leaves a reconnection in progress to the thread
\* that is making it and returns True.
ensure_connection_check_in_progress(t) ==
    /\ pc[t] = "ec_check"
    /\ IF status = RECONNECTING
         THEN /\ ret' = [ret EXCEPT ![t] = "true"]
              /\ pc' = [pc EXCEPT ![t] = "guard"]
         ELSE /\ pc' = [pc EXCEPT ![t] = IF is_connected THEN "ec_probe"
                                                          ELSE "init_loop"]
              /\ UNCHANGED ret
    /\ UNCHANGED <<conn_vars, op, attempt, pend, cont, hist_vars, resp>>

\* ensure_connection that takes Disconnected with the final diagnostic
\* for the end: it returns False without a new login.
ensure_connection_check_gives_up(t) ==
    /\ pc[t] = "ec_check"
    /\ IF status = DISCONNECTED /\ last_error = FinalErrorMsg(max_reconnect_attempts)
         THEN /\ ret' = [ret EXCEPT ![t] = "false"]
              /\ pc' = [pc EXCEPT ![t] = "guard"]
         ELSE /\ pc' = [pc EXCEPT ![t] = IF is_connected THEN "ec_probe"
                                                          ELSE "init_loop"]
              /\ UNCHANGED ret
    /\ UNCHANGED <<conn_vars, op, attempt, pend, cont, hist_vars, resp>>

\* ensure_connection(): the is_connected() test.
ensure_connection_check(t) ==
    /\ pc[t] = "ec_check"
    /\ pc' = [pc EXCEPT ![t] = IF is_connected THEN "ec_probe" ELSE "init_loop"]
    /\ UNCHANGED <<conn_vars, op, attempt, ret, pend, cont, hist_vars, resp>>

\* ensure_connection_probe without `return True`: a live connection is
\* initialized again.
ensure_connection_probe_relogin(t) ==
    /\ pc[t] = "ec_probe"
    /\ \E a \in AccountInfoAnswers :
         /\ AccountAnswer(a)
         /\ probe' = Record(probe, t, a)
         /\ CASE a = "data" ->
                   /\ pc' = [pc EXCEPT ![t] = "init_loop"]
                   /\ UNCHANGED <<status, last_error, pend, cont, ret>>
              [] a = "empty" ->
                   /\ set_status(t, DISCONNECTED, ConnectionLostMsg, "init_loop")
                   /\ UNCHANGED ret
              [] a = "raise" ->
                   /\ set_status(t, DISCONNECTED, ProbeExceptionMsg, "init_loop")
                   /\ UNCHANGED ret
    /\ UNCHANGED <<cfg_vars, op, attempt>>
    /\ UNCHANGED <<logins, logouts, sleeps, last_att, resp, api_vars>>

\* ensure_connection_probe without the except clause: the probe's
\* exception reaches the caller, who answers 500.
ensure_connection_probe_uncaught(t) ==
    /\ pc[t] = "ec_probe"
    /\ \E a \in AccountInfoAnswers :
         /\ AccountAnswer(a)
         /\ probe' = Record(probe, t, a)
         /\ CASE a = "data" ->
                   /\ ret' = [ret EXCEPT ![t] = "true"]
                   /\ pc' = [pc EXCEPT ![t] = "guard"]
                   /\ UNCHANGED <<status, last_error, pend, cont, resp>>
              [] a = "empty" ->
                   /\ set_status(t, DISCONNECTED, ConnectionLostMsg, "init_loop")
                   /\ UNCHANGED <<ret, resp>>
              [] a = "raise" ->
                   /\ pc' = [pc EXCEPT ![t] = "done"]
                   /\ resp' = [resp EXCEPT ![t] =
                         Response(500, "absent", "Internal Server Error", "absent")]
                   /\ UNCHANGED <<status, last_error, pend, cont, ret>>
    /\ UNCHANGED <<cfg_vars, op, attempt>>
    /\ UNCHANGED <<logins, logouts, sleeps, last_att, api_vars>>

\* ensure_connection(): the liveness probe of a connected manager.
ensure_connection_probe(t) ==
    /\ pc[t] = "ec_probe"
    /\ \E a \in AccountInfoAnswers :
         /\ AccountAnswer(a)
         /\ probe' = Record(probe, t, a)
         /\ CASE a = "data" ->
                   /\ ret' = [ret EXCEPT ![t] = "true"]
                   /\ pc' = [pc EXCEPT ![t] = "guard"]
                   /\ UNCHANGED <<status, last_error, pend, cont>>
              [] a = "empty" ->
                   /\ set_status(t, DISCONNECTED, ConnectionLostMsg, "init_loop")
                   /\ UNCHANGED ret
              [] a = "raise" ->
                   /\ set_status(t, DISCONNECTED, ProbeExceptionMsg, "init_loop")
                   /\ UNCHANGED ret
    /\ UNCHANGED <<cfg_vars, op, attempt>>
    /\ UNCHANGED <<logins, logouts, sleeps, last_att, resp, api_vars>>

\* shutdown(): the test of the status.
shutdown_check(t) ==
    /\ pc[t] = "sd_check"
    /\ pc' = [pc EXCEPT ![t] = IF status # DISCONNECTED THEN "sd_logout" ELSE "done"]
    /\ UNCHANGED <<conn_vars, op, attempt, ret, pend, cont, hist_vars, resp>>

\* shutdown_logout with the status set inside the try block, not in a
\* finally clause: a failed logout leaves the status as it was.
shutdown_logout_no_finally(t) ==
    /\ pc[t] = "sd_logout"
    /\ \E r \in LogoutAnswers :
         /\ logouts' = Record(logouts, t, Append(logouts[t], r))
         /\ IF r = "ok"
              THEN set_status(t, DISCONNECTED, NoError, "done")
              ELSE /\ pc' = [pc EXCEPT ![t] = "done"]
                   /\ UNCHANGED <<status, last_error, pend, cont>>
    /\ UNCHANGED <<cfg_vars, op, attempt, ret>>
    /\ UNCHANGED <<logins, sleeps, last_att, probe, resp, api_vars>>

\* shutdown(): mt5.shutdown(), its exception caught, and the finally clause.
shutdown_logout(t) ==
    /\ pc[t] = "sd_logout"
    /\ \E r \in LogoutAnswers :
         /\ logouts' = Record(logouts, t, Append(logouts[t], r))
         /\ set_status(t, DISCONNECTED, NoError, "done")
    /\ UNCHANGED <<cfg_vars, op, attempt, ret>>
    /\ UNCHANGED <<logins, sleeps, last_att, probe, resp, api_vars>>

\* ------------------------------------------------- require_mt5_connection

\* require_mt5_connection without the return in the failure branch: the
\* 503 response is built and the handler is called all the same.
require_mt5_connection_no_return(t) ==
    /\ pc[t] = "guard"
    /\ IF ret[t] = "false"
         THEN /\ resp' = [resp EXCEPT ![t] = Response(503, "absent", "MT5 unavailable", status)]
              /\ pc' = [pc EXCEPT ![t] = "body"]
              /\ UNCHANGED attempt
         ELSE /\ pc' = [pc EXCEPT ![t] = "body"]
              /\ attempt' = [attempt EXCEPT ![t] = 0]
              /\ UNCHANGED resp
    /\ UNCHANGED <<conn_vars, op, ret, pend, cont, hist_vars>>

\* decorated_function: the test of ensure_connection()'s value; on failure
\* the 503 response, otherwise the call of the handler, by which time the
\* locals of initialize() are gone.
require_mt5_connection(t) ==
    /\ pc[t] = "guard"
    /\ IF ret[t] = "false"
         THEN /\ resp' = [resp EXCEPT ![t] = Response(503, "absent", "MT5 unavailable", status)]
              /\ pc' = [pc EXCEPT ![t] = "done"]
              /\ UNCHANGED attempt
         ELSE /\ pc' = [pc EXCEPT ![t] = "body"]
              /\ attempt' = [attempt EXCEPT ![t] = 0]
              /\ UNCHANGED resp
    /\ UNCHANGED <<conn_vars, op, ret, pend, cont, hist_vars>>

\* ------------------------------------------------------------ health

\* ready_check that takes every status but DISCONNECTED for ready.
ready_check_not_disconnected(t) ==
    /\ pc[t] = "ready_check"
    /\ resp' = [resp EXCEPT ![t] =
          IF status # DISCONNECTED THEN Response(200, "absent", "absent", "absent")
                                   ELSE Response(503, "absent", "absent", "absent")]
    /\ pc' = [pc EXCEPT ![t] = "ready_body"]
    /\ UNCHANGED <<conn_vars, op, attempt, ret, pend, cont, hist_vars>>

\* ready_check: the is_connected() test, which decides the status code.
ready_check(t) ==
    /\ pc[t] = "ready_check"
    /\ resp' = [resp EXCEPT ![t] =
          IF is_connected THEN Response(200, "absent", "absent", "absent")
                          ELSE Response(503, "absent", "absent", "absent")]
    /\ pc' = [pc EXCEPT ![t] = "ready_body"]
    /\ UNCHANGED <<conn_vars, op, attempt, ret, pend, cont, hist_vars>>

\* ready_check: the body, built from a later conn.get_status().
ready_body(t) ==
    /\ pc[t] = "ready_body"
    /\ resp' = [resp EXCEPT ![t].mt5_status = status]
    /\ pc' = [pc EXCEPT ![t] = "done"]
    /\ UNCHANGED <<conn_vars, op, attempt, ret, pend, cont, hist_vars>>

\* health_check probing like ensure_connection: an account_info() that is
\* None or raises marks the connection lost.
health_check_account_marks_lost(t) ==
    /\ pc[t] = "health_account"
    /\ \E a \in AccountInfoAnswers :
         /\ AccountAnswer(a)
         /\ ven' = [ven EXCEPT ![t].account_info =
                IF is_connected THEN [got |-> a] ELSE Uncalled]
         /\ IF is_connected /\ a # "data"
              THEN /\ status' = DISCONNECTED
                   /\ last_error' = ConnectionLostMsg
              ELSE UNCHANGED <<status, last_error>>
    /\ pc' = [pc EXCEPT ![t] = "done"]
    /\ UNCHANGED <<cfg_vars, op, attempt, ret, pend, cont, resp>>
    /\ UNCHANGED <<logins, logouts, sleeps, last_att, probe>>
    /\ UNCHANGED <<body, req, sends, todo, results>>

\* health_check (GET /health): the response is 200 whatever the status is,
\* with mt5_status from conn.get_status().
health_check(t) ==
    /\ pc[t] = "health_check"
    /\ resp' = [resp EXCEPT ![t] = Response(200, "absent", "absent", status)]
    /\ pc' = [pc EXCEPT ![t] = "health_account"]
    /\ UNCHANGED <<conn_vars, op, attempt, ret, pend, cont, hist_vars>>

\* health_check: the is_connected() test and, when connected, the
\* mt5.account_info() call whose None or exception both leave mt5_account
\* null; then conn.get_last_error() for the body.
health_check_account(t) ==
    /\ pc[t] = "health_account"
    /\ \E a \in AccountInfoAnswers :
         /\ AccountAnswer(a)
         /\ ven' = [ven EXCEPT ![t].account_info =
                IF is_connected THEN [got |-> a] ELSE Uncalled]
    /\ pc' = [pc EXCEPT ![t] = "done"]
    /\ UNCHANGED <<conn_vars, op, attempt, ret, pend, cont, resp>>
    /\ UNCHANGED <<logins, logouts, sleeps, last_att, probe>>
    /\ UNCHANGED <<body, req, sends, todo, results>>

\* liveness_check (GET /health/live): 200, nothing read.
liveness_check(t) ==
    /\ pc[t] = "live_check"
    /\ resp' = [resp EXCEPT ![t] = Success("alive")]
    /\ pc' = [pc EXCEPT ![t] = "done"]
    /\ UNCHANGED <<conn_vars, op, attempt, ret, pend, cont, hist_vars>>

\* ------------------------------------------------------------ handlers

\* The handler called by the guard returns response r, having read request
\* data d and venue answers v and made the order_send() calls s.
Reply(t, d, v, s, r) ==
    /\ resp' = [resp EXCEPT ![t] = r]
    /\ body' = [body EXCEPT ![t] = TRUE]
    /\ req' = [req EXCEPT ![t] = d]
    /\ ven' = [ven EXCEPT ![t] = v]
    /\ sends' = [sends EXCEPT ![t] = s]
    /\ pc' = [pc EXCEPT ![t] = "done"]
    /\ UNCHANGED <<conn_vars, op, attempt, ret, pend, cont>>
    /\ UNCHANGED <<logins, logouts, sleeps, last_att, probe, todo, results>>

\* get_account_info: the account, or 503 when the venue returns None, or
\* 500 when it raises.
get_account_info(t) ==
    /\ pc[t] = "body"
    /\ op[t] = "account"
    /\ \E a \in AccountInfoAnswers :
         AccountAnswer(a) /\
         Reply(t, NoRequest, [NoVenue EXCEPT !.account_info = [got |-> a]], <<>>,
               CASE a = "data" -> Success("absent")
                 [] a = "empty" ->
                      Response(503, "connection_error",
                               "Failed to get account info", "absent")
                 [] a = "raise" -> internal_error_response("get_account_info"))

\* The answers of the venue that are explored.
SymbolSelectAnswers == {[got |-> "value", value |-> TRUE],
                        [got |-> "value", value |-> FALSE]}
SymbolInfoAnswers == {None, SymbolInfo(100, 300, 100, 2, 1, 2)}
TickAnswers == {None, Tick(10, 12)}
OrderSendAnswers ==
    {None, Raised, OrderResult(TRADE_RETCODE_DONE),
     OrderResult(TRADE_RETCODE_INVALID_STOPS),
     OrderResult(TRADE_RETCODE_MARKET_CLOSED)}
LastErrorCodes == {LastError(1), LastError(10004)}

\* order_send that gives the request to mt5.order_send() a second time when
\* the first result is None.
order_send_retry(t, d, v, request_data, operation, none_response, message) ==
    \E result \in OrderSendAnswers :
        LET v2 == [v EXCEPT !.order_send = result]
        IN  IF result.got = "raise"
              THEN Reply(t, d, v2, <<request_data>>,
                         internal_error_response(operation))
            ELSE IF result.got = "none"
              THEN Reply(t, d, v2, <<request_data, request_data>>, none_response)
            ELSE IF result.retcode # TRADE_RETCODE_DONE
              THEN \E e \in LastErrorCodes :
                       Reply(t, d, [v2 EXCEPT !.last_error = e], <<request_data>>,
                             mt5_error_response(operation, result.retcode, e.code))
            ELSE Reply(t, d, v2, <<request_data>>, Success(message))

\* The rest of a write handler after it has built request_data: the
\* mt5.order_send() call and the response made of its result.  none_response
\* is what the handler returns when the result is None.
order_send(t, d, v, request_data, operation, none_response, message) ==
    \E result \in OrderSendAnswers :
        LET v2 == [v EXCEPT !.order_send = result]
        IN  IF result.got = "raise"
              THEN Reply(t, d, v2, <<request_data>>,
                         internal_error_response(operation))
            ELSE IF result.got = "none"
              THEN Reply(t, d, v2, <<request_data>>, none_response)
            ELSE IF result.retcode # TRADE_RETCODE_DONE
              THEN \E e \in LastErrorCodes :
                       Reply(t, d, [v2 EXCEPT !.last_error = e], <<request_data>>,
                             mt5_error_response(operation, result.retcode, e.code))
            ELSE Reply(t, d, v2, <<request_data>>, Success(message))

\* --------------------------------------------------------- POST /order

\* The JSON body of POST /order.  empty: no body, or {}.  malformed: the
\* volume is not a number.  Prices are in points, volumes in hundredths of
\* a lot.
OrderData(type, volume, price, sl, tp, type_filling) ==
    [kind |-> "order", empty |-> FALSE, malformed |-> FALSE,
     symbol |-> Some("EURUSD"), type |-> type, volume |-> volume,
     price |-> price, sl |-> sl, tp |-> tp, type_filling |-> type_filling]

OrderTypeStrings ==
    {"BUY", "SELL", "BUY_LIMIT", "SELL_LIMIT", "BUY_STOP", "SELL_STOP", "buy", "HOLD"}
OrderVolumes == {0, 50, 100, 150, 400}
OrderPrices == {Absent, Some(0), Some(8), Some(11), Some(14)}
OrderStops == {Absent, Some(0), Some(6), Some(16)}
OrderFillings == {Absent, Some(ORDER_FILLING_FOK)}

OrderRequests ==
    {[OrderData(Some("BUY"), Some(100), Absent, Absent, Absent, Absent)
        EXCEPT !.empty = TRUE],
     [OrderData(Some("BUY"), Some(100), Absent, Absent, Absent, Absent)
        EXCEPT !.malformed = TRUE],
     OrderData(Some("BUY"), Absent, Absent, Absent, Absent, Absent),
     OrderData(Absent, Some(100), Absent, Absent, Absent, Absent)}
    \cup {OrderData(Some(ty), Some(vol), price, sl, tp, tf) :
             ty \in OrderTypeStrings, vol \in OrderVolumes, price \in OrderPrices,
             sl \in OrderStops, tp \in OrderStops, tf \in OrderFillings}

\* str.upper() on the type strings above.
Upper(s) == IF s = "buy" THEN "BUY" ELSE s

\* validate_symbol, selected being the answer of its mt5.symbol_select().
validate_symbol(selected) == selected.value

\* order_submit without the SL/TP check.
order_submit_unchecked(t, data, v, order_type, action, price) ==
    LET request_data ==
            [action |-> action, symbol |-> Value(data.symbol),
             volume |-> Value(data.volume), type |-> order_type,
             price |-> price, deviation |-> 20, magic |-> 0,
             type_filling |-> Get(data.type_filling, ORDER_FILLING_IOC),
             sl |-> data.sl, tp |-> data.tp]
    IN  order_send(t, data, v, request_data, "send_order",
          validation_error_response("Order execution failed - MT5 returned None"),
          "Order sent")

\* send_market_order_endpoint from the SL/TP check on: the check, the
\* request and its submission.
order_submit(t, data, v, order_type, action, price) ==
    LET sl == data.sl
        tp == data.tp
        checked == validate_sl_tp(order_type, price, sl, tp)
        request_data ==
            [action |-> action, symbol |-> Value(data.symbol),
             volume |-> Value(data.volume), type |-> order_type,
             price |-> price, deviation |-> 20, magic |-> 0,
             type_filling |-> Get(data.type_filling, ORDER_FILLING_IOC),
             sl |-> sl, tp |-> tp]
    IN  IF (Present(sl) \/ Present(tp)) /\ ~checked.valid
          THEN Reply(t, data, v, <<>>, validation_error_response(checked.error))
          ELSE order_send(t, data, v, request_data, "send_order",
                 validation_error_response("Order execution failed - MT5 returned None"),
                 "Order sent")

\* order_price taking the price of the request, when it has one, for a
\* market order too.
order_price_from_request(t, data, v, order_type) ==
    IF order_type \in {ORDER_TYPE_BUY, ORDER_TYPE_SELL}
      THEN \E tick \in TickAnswers \cup {Raised} :
             LET v2 == [v EXCEPT !.tick = tick]
             IN  IF tick.got = "raise"
                   THEN Reply(t, data, v2, <<>>, internal_error_response("send_order"))
                 ELSE IF tick.got = "none"
                   THEN Reply(t, data, v2, <<>>,
                          validation_error_response("Failed to get symbol price"))
                   ELSE order_submit(t, data, v2, order_type, TRADE_ACTION_DEAL,
                          IF Present(data.price) THEN Value(data.price)
                          ELSE IF order_type = ORDER_TYPE_BUY THEN tick.ask
                          ELSE tick.bid)
    ELSE IF order_type \in {ORDER_TYPE_BUY_LIMIT, ORDER_TYPE_SELL_LIMIT,
                            ORDER_TYPE_BUY_STOP, ORDER_TYPE_SELL_STOP}
      THEN IF ~Present(data.price)
             THEN Reply(t, data, v, <<>>,
                    validation_error_response("Price required for pending orders"))
           ELSE IF Value(data.price) <= 0
             THEN Reply(t, data, v, <<>>,
                    validation_error_response("Price must be positive"))
           ELSE \E tick \in TickAnswers :
                  IF tick.got = "none"
                    THEN Reply(t, data, [v EXCEPT !.tick = tick], <<>>,
                           validation_error_response(
                             validate_pending_price(order_type, tick, Uncalled,
                                                    Value(data.price)).error))
                    ELSE \E info \in SymbolInfoAnswers :
                           LET v2 == [v EXCEPT !.tick = tick, !.price_info = info]
                               checked == validate_pending_price(
                                            order_type, tick, info, Value(data.price))
                           IN  IF ~checked.valid
                                 THEN Reply(t, data, v2, <<>>,
                                        validation_error_response(checked.error))
                                 ELSE order_submit(t, data, v2, order_type,
                                        TRADE_ACTION_PENDING, Value(data.price))
    ELSE Reply(t, data, v, <<>>, validation_error_response("Invalid order type"))

\* send_market_order_endpoint from the choice of the price on.
order_price(t, data, v, order_type) ==
    IF order_type \in {ORDER_TYPE_BUY, ORDER_TYPE_SELL}
      THEN \E tick \in TickAnswers \cup {Raised} :
             LET v2 == [v EXCEPT !.tick = tick]
             IN  IF tick.got = "raise"
                   THEN Reply(t, data, v2, <<>>, internal_error_response("send_order"))
                 ELSE IF tick.got = "none"
                   THEN Reply(t, data, v2, <<>>,
                          validation_error_response("Failed to get symbol price"))
                   ELSE order_submit(t, data, v2, order_type, TRADE_ACTION_DEAL,
                          IF order_type = ORDER_TYPE_BUY THEN tick.ask ELSE tick.bid)
    ELSE IF order_type \in {ORDER_TYPE_BUY_LIMIT, ORDER_TYPE_SELL_LIMIT,
                            ORDER_TYPE_BUY_STOP, ORDER_TYPE_SELL_STOP}
      THEN IF ~Present(data.price)
             THEN Reply(t, data, v, <<>>,
                    validation_error_response("Price required for pending orders"))
           ELSE IF Value(data.price) <= 0
             THEN Reply(t, data, v, <<>>,
                    validation_error_response("Price must be positive"))
           ELSE \E tick \in TickAnswers :
                  IF tick.got = "none"
                    THEN Reply(t, data, [v EXCEPT !.tick = tick], <<>>,
                           validation_error_response(
                             validate_pending_price(order_type, tick, Uncalled,
                                                    Value(data.price)).error))
                    ELSE \E info \in SymbolInfoAnswers :
                           LET v2 == [v EXCEPT !.tick = tick, !.price_info = info]
                               checked == validate_pending_price(
                                            order_type, tick, info, Value(data.price))
                           IN  IF ~checked.valid
                                 THEN Reply(t, data, v2, <<>>,
                                        validation_error_response(checked.error))
                                 ELSE order_submit(t, data, v2, order_type,
                                        TRADE_ACTION_PENDING, Value(data.price))
    ELSE Reply(t, data, v, <<>>, validation_error_response("Invalid order type"))

\* A symbol whose filling bitmask has bit 4 alone (RETURN), among the
\* symbols an order is sent for.
OrderSymbolInfo == {SymbolInfo(100, 300, 100, 2, 1, 4)}

\* send_market_order_endpoint (POST /order).
send_market_order_endpoint(t) ==
    /\ pc[t] = "body"
    /\ op[t] = "order"
    /\ \E data \in OrderRequests :
         IF data.empty
           THEN Reply(t, data, NoVenue, <<>>,
                  validation_error_response("Order data is required"))
         ELSE IF ~(Present(data.symbol) /\ Present(data.volume) /\ Present(data.type))
           THEN Reply(t, data, NoVenue, <<>>,
                  validation_error_response("Missing required fields"))
         ELSE \E selected \in SymbolSelectAnswers :
                LET v == [NoVenue EXCEPT !.symbol_select = selected]
                    order_type_str == Upper(Value(data.type))
                IN  IF ~validate_symbol(selected)
                      THEN Reply(t, data, v, <<>>,
                             validation_error_response("Symbol not found or not selectable"))
                    ELSE IF order_type_str \notin DOMAIN ORDER_TYPE_MAP
                      THEN Reply(t, data, v, <<>>,
                             validation_error_response("Invalid order type"))
                    ELSE IF data.malformed
                      THEN Reply(t, data, v, <<>>, internal_error_response("send_order"))
                    ELSE IF Value(data.volume) <= 0
                      THEN Reply(t, data, v, <<>>,
                             validation_error_response("Volume must be positive"))
                    ELSE \E info \in SymbolInfoAnswers \cup OrderSymbolInfo :
                           LET v2 == [v EXCEPT !.volume_info = info]
                               checked == validate_volume(info, Value(data.volume))
                           IN  IF ~checked.valid
                                 THEN Reply(t, data, v2, <<>>,
                                        validation_error_response(checked.error))
                                 ELSE order_price(t, data, v2,
                                        ORDER_TYPE_MAP[order_type_str])

\* ------------------------------------------- orders: cancel and modify

\* mt5.orders_get(ticket=...) and mt5.positions_get(...): a tuple of rows.
Rows(items) == [got |-> "value", items |-> items]
Order(ticket, type, price_open, sl, tp) ==
    [ticket |-> ticket, type |-> type, price_open |-> price_open, sl |-> sl, tp |-> tp]
Position(ticket, type, volume, magic) ==
    [ticket |-> ticket, symbol |-> "EURUSD", type |-> type, volume |-> volume,
     magic |-> magic]

OrdersGetAnswers(ticket) ==
    {None, Rows(<<>>),
     Rows(<<Order(ticket, ORDER_TYPE_BUY_LIMIT, 8, 0, 0)>>),
     Rows(<<Order(ticket, ORDER_TYPE_SELL_STOP, 8, 16, 6)>>)}

\* The 503 and 404 responses cancel_order and modify_order build themselves.
OrdersUnavailable ==
    Response(503, "connection_error", "Failed to retrieve order information", "absent")
OrderNotFound ==
    Response(404, "not_found", "Order with ticket not found", "absent")

CancelRequests == {[kind |-> "cancel_order", ticket |-> 1]}

\* cancel_order submitting the removal without looking at what orders_get
\* found.
cancel_order_unresolved(t) ==
    /\ pc[t] = "body"
    /\ op[t] = "cancel_order"
    /\ \E data \in CancelRequests :
         \E orders \in OrdersGetAnswers(data.ticket) :
            LET v == [NoVenue EXCEPT !.orders_get = orders]
                request_data ==
                    [action |-> TRADE_ACTION_REMOVE, order |-> data.ticket,
                     type_filling |-> ORDER_FILLING_RETURN]
            IN  IF orders.got = "none"
                  THEN Reply(t, data, v, <<>>, OrdersUnavailable)
                ELSE order_send(t, data, v, request_data, "cancel_order",
                                InvalidViewReturn, "Order cancelled successfully")

\* cancel_order (DELETE /order/<ticket>).
cancel_order(t) ==
    /\ pc[t] = "body"
    /\ op[t] = "cancel_order"
    /\ \E data \in CancelRequests :
         \E orders \in OrdersGetAnswers(data.ticket) :
            LET v == [NoVenue EXCEPT !.orders_get = orders]
                request_data ==
                    [action |-> TRADE_ACTION_REMOVE, order |-> data.ticket,
                     type_filling |-> ORDER_FILLING_RETURN]
            IN  IF orders.got = "none"
                  THEN Reply(t, data, v, <<>>, OrdersUnavailable)
                ELSE IF Len(orders.items) = 0
                  THEN Reply(t, data, v, <<>>, OrderNotFound)
                ELSE order_send(t, data, v, request_data, "cancel_order",
                                InvalidViewReturn, "Order cancelled successfully")

\* The JSON body of PUT /order/<ticket>.
ModifyData(price, sl, tp) ==
    [kind |-> "modify_order", empty |-> FALSE, ticket |-> 1,
     price |-> price, sl |-> sl, tp |-> tp]
ModifyPrices == {Absent, Some(0), Some(8), Some(11)}
ModifyStops == {Absent, Some(-1), Some(0), Some(6), Some(16)}
ModifyRequests ==
    {[ModifyData(Absent, Absent, Absent) EXCEPT !.empty = TRUE]}
    \cup {ModifyData(price, sl, tp) :
             price \in ModifyPrices, sl \in ModifyStops, tp \in ModifyStops}

\* modify_order_checked taking 0, no stop, for a stop the body does not
\* supply, instead of the stop the order has.
modify_order_checked_stops_reset(t, data, v, order) ==
    LET new_price == Get(data.price, order.price_open)
        new_sl == Get(data.sl, 0)
        new_tp == Get(data.tp, 0)
        stops == validate_sl_tp(order.type, new_price,
                                IF new_sl > 0 THEN Some(new_sl) ELSE Absent,
                                IF new_tp > 0 THEN Some(new_tp) ELSE Absent)
        request_data ==
            [action |-> TRADE_ACTION_MODIFY, order |-> data.ticket,
             price |-> new_price, sl |-> new_sl, tp |-> new_tp,
             type_filling |-> ORDER_FILLING_RETURN]
        submit(v2) ==
            IF (new_sl > 0 \/ new_tp > 0) /\ ~stops.valid
              THEN Reply(t, data, v2, <<>>, validation_error_response(stops.error))
              ELSE order_send(t, data, v2, request_data, "modify_order",
                              InvalidViewReturn, "Order modified successfully")
    IN  IF new_price <= 0
          THEN Reply(t, data, v, <<>>,
                 validation_error_response("Price must be positive"))
        ELSE IF new_sl < 0
          THEN Reply(t, data, v, <<>>,
                 validation_error_response("Stop loss must be non-negative"))
        ELSE IF new_tp < 0
          THEN Reply(t, data, v, <<>>,
                 validation_error_response("Take profit must be non-negative"))
        ELSE IF Present(data.price)
          THEN \E tick \in TickAnswers :
                 IF tick.got = "none"
                   THEN Reply(t, data, [v EXCEPT !.tick = tick], <<>>,
                          validation_error_response(
                            validate_pending_price(order.type, tick, Uncalled,
                                                   new_price).error))
                   ELSE \E info \in SymbolInfoAnswers :
                          LET v2 == [v EXCEPT !.tick = tick, !.price_info = info]
                              checked == validate_pending_price(
                                           order.type, tick, info, new_price)
                          IN  IF ~checked.valid
                                THEN Reply(t, data, v2, <<>>,
                                       validation_error_response(checked.error))
                                ELSE submit(v2)
        ELSE submit(v)

\* modify_order from the checks of the new values on.
modify_order_checked(t, data, v, order) ==
    LET new_price == Get(data.price, order.price_open)
        new_sl == Get(data.sl, order.sl)
        new_tp == Get(data.tp, order.tp)
        stops == validate_sl_tp(order.type, new_price,
                                IF new_sl > 0 THEN Some(new_sl) ELSE Absent,
                                IF new_tp > 0 THEN Some(new_tp) ELSE Absent)
        request_data ==
            [action |-> TRADE_ACTION_MODIFY, order |-> data.ticket,
             price |-> new_price, sl |-> new_sl, tp |-> new_tp,
             type_filling |-> ORDER_FILLING_RETURN]
        submit(v2) ==
            IF (new_sl > 0 \/ new_tp > 0) /\ ~stops.valid
              THEN Reply(t, data, v2, <<>>, validation_error_response(stops.error))
              ELSE order_send(t, data, v2, request_data, "modify_order",
                              InvalidViewReturn, "Order modified successfully")
    IN  IF new_price <= 0
          THEN Reply(t, data, v, <<>>,
                 validation_error_response("Price must be positive"))
        ELSE IF new_sl < 0
          THEN Reply(t, data, v, <<>>,
                 validation_error_response("Stop loss must be non-negative"))
        ELSE IF new_tp < 0
          THEN Reply(t, data, v, <<>>,
                 validation_error_response("Take profit must be non-negative"))
        ELSE IF Present(data.price)
          THEN \E tick \in TickAnswers :
                 IF tick.got = "none"
                   THEN Reply(t, data, [v EXCEPT !.tick = tick], <<>>,
                          validation_error_response(
                            validate_pending_price(order.type, tick, Uncalled,
                                                   new_price).error))
                   ELSE \E info \in SymbolInfoAnswers :
                          LET v2 == [v EXCEPT !.tick = tick, !.price_info = info]
                              checked == validate_pending_price(
                                           order.type, tick, info, new_price)
                          IN  IF ~checked.valid
                                THEN Reply(t, data, v2, <<>>,
                                       validation_error_response(checked.error))
                                ELSE submit(v2)
        ELSE submit(v)

\* modify_order (PUT /order/<ticket>).
modify_order(t) ==
    /\ pc[t] = "body"
    /\ op[t] = "modify_order"
    /\ \E data \in ModifyRequests :
         IF data.empty
           THEN Reply(t, data, NoVenue, <<>>,
                  validation_error_response("Modification data is required"))
         ELSE IF ~Present(data.price) /\ ~Present(data.sl) /\ ~Present(data.tp)
           THEN Reply(t, data, NoVenue, <<>>,
                  validation_error_response(
                    "At least one of price, sl, or tp must be provided"))
         ELSE \E orders \in OrdersGetAnswers(data.ticket) :
                LET v == [NoVenue EXCEPT !.orders_get = orders]
                IN  IF orders.got = "none"
                      THEN Reply(t, data, v, <<>>, OrdersUnavailable)
                    ELSE IF Len(orders.items) = 0
                      THEN Reply(t, data, v, <<>>, OrderNotFound)
                    ELSE modify_order_checked(t, data, v, orders.items[1])

\* ----------------------------------------------------- close_position

\* The venue reads of one close_position() call.
NoClose ==
    [positions_get |-> Uncalled, symbol_select |-> Uncalled, tick |-> Uncalled,
     filling_info |-> Uncalled, order_send |-> Uncalled]

\* What one close_position() call did: its venue reads, the request it gave
\* to mt5.order_send() if it made one, and the value it returned (Raised
\* when mt5.order_send() raised).
CloseOutcome(reads, request, result) ==
    [reads |-> reads, request |-> request, result |-> result]

\* The answers the venue may give to the calls of close_position().
CloseAnswers(positions_get, symbol_select, tick, symbol_info) ==
    [positions_get |-> positions_get, symbol_select |-> symbol_select,
     tick |-> tick, symbol_info |-> symbol_info, order_send |-> OrderSendAnswers]

\* close_position closing the volume the caller's position dictionary names,
\* when it names one, instead of the volume of the position read by ticket.
close_position_as_asked(position, A) ==
    IF ~Present(position.ticket) THEN {CloseOutcome(NoClose, Absent, None)}
    ELSE UNION {
      LET c1 == [NoClose EXCEPT !.positions_get = positions]
      IN  IF positions.got = "none" \/ Len(positions.items) = 0
            THEN {CloseOutcome(c1, Absent, None)}
          ELSE LET actual_position == positions.items[1]
                   position_type == actual_position.type
               IN
          IF position_type \notin {0, 1} THEN {CloseOutcome(c1, Absent, None)}
          ELSE UNION {
            LET c2 == [c1 EXCEPT !.symbol_select = selected]
            IN  IF ~validate_symbol(selected) THEN {CloseOutcome(c2, Absent, None)}
                ELSE UNION {
                  LET c3 == [c2 EXCEPT !.tick = tick]
                      price == IF position_type = 0 THEN tick.bid ELSE tick.ask
                  IN  IF tick.got = "none" THEN {CloseOutcome(c3, Absent, None)}
                      ELSE IF price = 0 THEN {CloseOutcome(c3, Absent, None)}
                      ELSE UNION {
                        LET request ==
                              [action |-> TRADE_ACTION_DEAL,
                               position |-> Value(position.ticket),
                               symbol |-> actual_position.symbol,
                               volume |-> IF "volume" \in DOMAIN position
                                           THEN position.volume
                                           ELSE actual_position.volume,
                               type |-> IF position_type = 0 THEN ORDER_TYPE_SELL
                                                             ELSE ORDER_TYPE_BUY,
                               price |-> price, deviation |-> 20,
                               magic |-> actual_position.magic,
                               type_filling |-> get_symbol_filling_mode(info)]
                        IN  {CloseOutcome(
                               [c3 EXCEPT !.filling_info = info,
                                          !.order_send = order_result],
                               Some(request),
                               IF order_result.got = "value"
                                  /\ order_result.retcode # TRADE_RETCODE_DONE
                                 THEN None ELSE order_result) :
                             order_result \in A.order_send}
                        : info \in A.symbol_info}
                  : tick \in A.tick}
            : selected \in A.symbol_select}
      : positions \in A.positions_get}

\* close_position(position) of lib.py: every outcome it can have when the
\* venue answers from A.  position.ticket is optional.
close_position(position, A) ==
    IF ~Present(position.ticket) THEN {CloseOutcome(NoClose, Absent, None)}
    ELSE UNION {
      LET c1 == [NoClose EXCEPT !.positions_get = positions]
      IN  IF positions.got = "none" \/ Len(positions.items) = 0
            THEN {CloseOutcome(c1, Absent, None)}
          ELSE LET actual_position == positions.items[1]
                   position_type == actual_position.type
               IN
          IF position_type \notin {0, 1} THEN {CloseOutcome(c1, Absent, None)}
          ELSE UNION {
            LET c2 == [c1 EXCEPT !.symbol_select = selected]
            IN  IF ~validate_symbol(selected) THEN {CloseOutcome(c2, Absent, None)}
                ELSE UNION {
                  LET c3 == [c2 EXCEPT !.tick = tick]
                      price == IF position_type = 0 THEN tick.bid ELSE tick.ask
                  IN  IF tick.got = "none" THEN {CloseOutcome(c3, Absent, None)}
                      ELSE IF price = 0 THEN {CloseOutcome(c3, Absent, None)}
                      ELSE UNION {
                        LET request ==
                              [action |-> TRADE_ACTION_DEAL,
                               position |-> Value(position.ticket),
                               symbol |-> actual_position.symbol,
                               volume |-> actual_position.volume,
                               type |-> IF position_type = 0 THEN ORDER_TYPE_SELL
                                                             ELSE ORDER_TYPE_BUY,
                               price |-> price, deviation |-> 20,
                               magic |-> actual_position.magic,
                               type_filling |-> get_symbol_filling_mode(info)]
                        IN  {CloseOutcome(
                               [c3 EXCEPT !.filling_info = info,
                                          !.order_send = order_result],
                               Some(request),
                               IF order_result.got = "value"
                                  /\ order_result.retcode # TRADE_RETCODE_DONE
                                 THEN None ELSE order_result) :
                             order_result \in A.order_send}
                        : info \in A.symbol_info}
                  : tick \in A.tick}
            : selected \in A.symbol_select}
      : positions \in A.positions_get}

\* The JSON body of POST /close_position.
CloseData(position) ==
    [kind |-> "close_position", empty |-> FALSE, position |-> position]
\* The last body names the position by its ticket and adds fields that
\* differ from the position open at the venue.
CloseRequests ==
    {[CloseData(Absent) EXCEPT !.empty = TRUE], CloseData(Absent),
     CloseData(Some([ticket |-> Absent])), CloseData(Some([ticket |-> Some(1)])),
     CloseData(Some([ticket |-> Some(1), symbol |-> "GBPUSD", type |-> 1,
                     volume |-> 100, magic |-> 3]))}

\* The venue of POST /close_position: the position is a BUY or a SELL
\* position, or is not found; the bid may be 0.
CloseEndpointAnswers ==
    CloseAnswers({None, Rows(<<>>), Rows(<<Position(1, 0, 200, 7)>>),
                  Rows(<<Position(1, 1, 200, 0)>>)},
                 SymbolSelectAnswers, TickAnswers \cup {Tick(0, 12)},
                 SymbolInfoAnswers)

\* close_position_endpoint (POST /close_position).
close_position_endpoint(t) ==
    /\ pc[t] = "body"
    /\ op[t] = "close_position"
    /\ \E data \in CloseRequests :
         IF data.empty \/ ~Present(data.position)
           THEN Reply(t, data, NoVenue, <<>>,
                  validation_error_response("Position data is required"))
           ELSE \E o \in close_position(Value(data.position), CloseEndpointAnswers) :
                  LET v == [NoVenue EXCEPT !.closes = <<o.reads>>]
                  IN  IF o.result.got = "raise"
                        THEN Reply(t, data, v, o.request,
                                   internal_error_response("close_position"))
                      ELSE IF o.result.got = "none"
                        THEN Reply(t, data, v, o.request,
                               validation_error_response("Failed to close position"))
                      ELSE IF o.result.retcode # TRADE_RETCODE_DONE
                        THEN \E e \in LastErrorCodes :
                               Reply(t, data, [v EXCEPT !.last_error = e], o.request,
                                     mt5_error_response("Close position",
                                                        o.result.retcode, e.code))
                      ELSE Reply(t, data, v, o.request,
                                 Success("Position closed successfully"))

\* ------------------------------------------------------- partial close

\* The JSON body of POST /close_position_partial.
PartialData(ticket, volume, type) ==
    [kind |-> "close_partial", empty |-> FALSE, ticket |-> ticket,
     symbol |-> "EURUSD", volume |-> volume, type |-> type]
PartialVolumes == {0, 100, 200, 300}
PartialTypes == {0, 1, 2}
PartialRequests ==
    {[PartialData(Absent, 100, 0) EXCEPT !.empty = TRUE], PartialData(Absent, 100, 0)}
    \cup {PartialData(Some(1), vol, ty) : vol \in PartialVolumes, ty \in PartialTypes}

PartialPositionsAnswers(ticket) ==
    {None, Rows(<<>>), Rows(<<Position(ticket, 0, 200, 0)>>),
     Rows(<<Position(ticket, 1, 200, 0)>>)}

\* partial_close_found letting the whole volume of the position through.
partial_close_found_whole(t, data, v, position) ==
    LET volume == data.volume
        position_type == data.type
    IN  IF volume > position.volume
          THEN Reply(t, data, v, <<>>,
                 validation_error_response(
                   "Volume to close must be less than position volume. Use /close_position"))
          ELSE \E tick \in TickAnswers :
                 LET v2 == [v EXCEPT !.tick = tick]
                 IN  IF tick.got = "none"
                       THEN Reply(t, data, v2, <<>>,
                              validation_error_response("Failed to get tick"))
                     ELSE IF position_type \notin {0, 1}
                       THEN Reply(t, data, v2, <<>>,
                              validation_error_response("Invalid position type"))
                     ELSE \E info \in SymbolInfoAnswers :
                            order_send(t, data, [v2 EXCEPT !.filling_info = info],
                              [action |-> TRADE_ACTION_DEAL,
                               position |-> Value(data.ticket),
                               symbol |-> data.symbol, volume |-> volume,
                               type |-> IF position_type = 0 THEN ORDER_TYPE_SELL
                                                             ELSE ORDER_TYPE_BUY,
                               price |-> IF position_type = 0 THEN tick.bid
                                                              ELSE tick.ask,
                               deviation |-> 20, magic |-> 0,
                               type_filling |-> get_symbol_filling_mode(info)],
                              "close_position_partial", InvalidViewReturn,
                              "Position partially closed successfully")

\* close_position_partial_endpoint once the position is found.
partial_close_found(t, data, v, position) ==
    LET volume == data.volume
        position_type == data.type
    IN  IF volume >= position.volume
          THEN Reply(t, data, v, <<>>,
                 validation_error_response(
                   "Volume to close must be less than position volume. Use /close_position"))
          ELSE \E tick \in TickAnswers :
                 LET v2 == [v EXCEPT !.tick = tick]
                 IN  IF tick.got = "none"
                       THEN Reply(t, data, v2, <<>>,
                              validation_error_response("Failed to get tick"))
                     ELSE IF position_type \notin {0, 1}
                       THEN Reply(t, data, v2, <<>>,
                              validation_error_response("Invalid position type"))
                     ELSE \E info \in SymbolInfoAnswers :
                            order_send(t, data, [v2 EXCEPT !.filling_info = info],
                              [action |-> TRADE_ACTION_DEAL,
                               position |-> Value(data.ticket),
                               symbol |-> data.symbol, volume |-> volume,
                               type |-> IF position_type = 0 THEN ORDER_TYPE_SELL
                                                             ELSE ORDER_TYPE_BUY,
                               price |-> IF position_type = 0 THEN tick.bid
                                                              ELSE tick.ask,
                               deviation |-> 20, magic |-> 0,
                               type_filling |-> get_symbol_filling_mode(info)],
                              "close_position_partial", InvalidViewReturn,
                              "Position partially closed successfully")

\* close_position_partial_endpoint (POST /close_position_partial).
close_position_partial_endpoint(t) ==
    /\ pc[t] = "body"
    /\ op[t] = "close_partial"
    /\ \E data \in PartialRequests :
         IF data.empty
           THEN Reply(t, data, NoVenue, <<>>,
                  validation_error_response("Position data is required"))
         ELSE IF ~Present(data.ticket)
           THEN Reply(t, data, NoVenue, <<>>,
                  validation_error_response("Missing required fields"))
         ELSE IF data.volume <= 0
           THEN Reply(t, data, NoVenue, <<>>,
                  validation_error_response("Volume must be positive"))
         ELSE \E selected \in SymbolSelectAnswers :
                LET v == [NoVenue EXCEPT !.symbol_select = selected]
                IN  IF ~validate_symbol(selected)
                      THEN Reply(t, data, v, <<>>,
                             validation_error_response(
                               "Symbol not found or not selectable"))
                      ELSE \E positions \in PartialPositionsAnswers(Value(data.ticket)) :
                             LET v2 == [v EXCEPT !.positions_get = positions]
                             IN  IF positions.got = "none" \/ Len(positions.items) = 0
                                   THEN Reply(t, data, v2, <<>>,
                                          validation_error_response("Position not found"))
                                   ELSE partial_close_found(t, data, v2,
                                                            positions.items[1])

\* ---------------------------------------------------------- modify SL/TP

\* The JSON body of POST /modify_sl_tp.
ModifySlTpData(position, sl, tp) ==
    [kind |-> "modify_sl_tp", empty |-> FALSE, position |-> position,
     sl |-> sl, tp |-> tp]
ModifySlTpRequests ==
    {[ModifySlTpData(Absent, Absent, Absent) EXCEPT !.empty = TRUE],
     ModifySlTpData(Absent, Some(6), Some(16))}
    \cup {ModifySlTpData(Some(1), sl, tp) :
             sl \in {Absent, Some(0), Some(6)}, tp \in {Absent, Some(16)}}

\* modify_sl_tp_endpoint (POST /modify_sl_tp).
modify_sl_tp_endpoint(t) ==
    /\ pc[t] = "body"
    /\ op[t] = "modify_sl_tp"
    /\ \E data \in ModifySlTpRequests :
         IF data.empty \/ ~Present(data.position)
           THEN Reply(t, data, NoVenue, <<>>,
                  validation_error_response("Position data is required"))
           ELSE order_send(t, data, NoVenue,
                  [action |-> TRADE_ACTION_SLTP, position |-> Value(data.position),
                   sl |-> data.sl, tp |-> data.tp],
                  "modify_sl_tp",
                  validation_error_response("Modify SL/TP failed - MT5 returned None"),
                  "SL/TP modified successfully")

\* ------------------------------------------------------------ close all

\* The JSON body of POST /close_all_positions; both keys are optional.
CloseAllData(order_type, magic) ==
    [kind |-> "close_all", order_type |-> order_type, magic |-> magic]
CloseAllRequests ==
    {CloseAllData(order_type, magic) :
       order_type \in {Absent, Some("BUY"), Some("SELL"), Some("HOLD")},
       magic \in {Absent, Some(7)}}

\* mt5.positions_total(): None, or a count.
PositionsTotalAnswers ==
    {None, [got |-> "value", value |-> 0], [got |-> "value", value |-> MaxPositions]}

\* mt5.positions_get(): None, or up to MaxPositions positions with tickets
\* 1, 2, ..., each a BUY (0) or a SELL (1) position with magic 0 or 7.
PositionRows(n) ==
    {[i \in 1..n |-> Position(i, type[i], 200, magic[i])] :
       type \in [1..n -> {0, 1}], magic \in [1..n -> {0, 7}]}
PositionsGetAnswers ==
    {None} \cup {Rows(rows) : rows \in UNION {PositionRows(n) : n \in 0..MaxPositions}}

\* The venue during the loop of close_all_positions: a listed position is
\* still open as listed, or gone.
CloseAllAnswers(position) ==
    CloseAnswers({Rows(<<>>), Rows(<<position>>)}, SymbolSelectAnswers,
                 TickAnswers, {SymbolInfo(100, 300, 100, 2, 1, 2)})

\* The rows of positions_df after the filters of close_all_positions.
FilterPositions(items, order_type, magic) ==
    LET HasMagic(pos) == pos.magic = Value(magic)
        by_magic == IF Present(magic) THEN SelectSeq(items, HasMagic) ELSE items
        wanted == IF order_type = "BUY" THEN ORDER_TYPE_BUY ELSE ORDER_TYPE_SELL
        HasType(pos) == pos.type = wanted
    IN  IF order_type # "all" THEN SelectSeq(by_magic, HasType) ELSE by_magic

\* close_all_positions_endpoint with close_all_positions of lib.py, up to
\* its loop: the listing and the filters.  A DataFrame made of no rows has
\* no columns, so filtering it raises KeyError.
close_all_positions_endpoint(t) ==
    /\ pc[t] = "body"
    /\ op[t] = "close_all"
    /\ \E data \in CloseAllRequests, total \in PositionsTotalAnswers :
         LET order_type == Get(data.order_type, "all")
             magic == data.magic
             v == [NoVenue EXCEPT !.positions_total = total]
             nothing == Success("No positions were closed")
         IN  IF total.got = "none" \/ total.value <= 0
               THEN Reply(t, data, v, <<>>, nothing)
               ELSE \E positions \in PositionsGetAnswers :
                 LET v2 == [v EXCEPT !.positions_get = positions]
                 IN  IF positions.got = "none" THEN Reply(t, data, v2, <<>>, nothing)
                     ELSE IF Len(positions.items) = 0 /\ Present(magic)
                       THEN Reply(t, data, v2, <<>>,
                                  internal_error_response("close_all_positions"))
                     ELSE IF order_type \notin {"all", "BUY", "SELL"}
                       THEN Reply(t, data, v2, <<>>, nothing)
                     ELSE IF Len(positions.items) = 0 /\ order_type # "all"
                       THEN Reply(t, data, v2, <<>>,
                                  internal_error_response("close_all_positions"))
                     ELSE IF FilterPositions(positions.items, order_type, magic) = <<>>
                       THEN Reply(t, data, v2, <<>>, nothing)
                     ELSE /\ body' = [body EXCEPT ![t] = TRUE]
                          /\ req' = [req EXCEPT ![t] = data]
                          /\ ven' = [ven EXCEPT ![t] = v2]
                          /\ todo' = [todo EXCEPT ![t] =
                                 FilterPositions(positions.items, order_type, magic)]
                          /\ pc' = [pc EXCEPT ![t] = "close_all_loop"]
                          /\ UNCHANGED <<conn_vars, op, attempt, ret, pend, cont>>
                          /\ UNCHANGED <<logins, logouts, sleeps, last_att, probe>>
                          /\ UNCHANGED <<sends, results, resp>>

\* close_all_positions with no except clause around it: an exception of
\* mt5.order_send() leaves the view and Flask answers it.
close_all_positions_raise_escapes(t) ==
    /\ pc[t] = "close_all_loop"
    /\ IF todo[t] = <<>>
         THEN /\ resp' = [resp EXCEPT ![t] =
                    IF results[t] = <<>> THEN Success("No positions were closed")
                                         ELSE Success("Closed positions")]
              /\ pc' = [pc EXCEPT ![t] = "done"]
              /\ UNCHANGED <<ven, sends, todo, results>>
         ELSE \E o \in close_position([ticket |-> Some(Head(todo[t]).ticket)],
                                      CloseAllAnswers(Head(todo[t]))) :
                /\ ven' = [ven EXCEPT ![t].closes = Append(@, o.reads)]
                /\ sends' = [sends EXCEPT ![t] = @ \o o.request]
                /\ IF o.result.got = "raise"
                     THEN /\ resp' = [resp EXCEPT ![t] =
                                Response(500, "absent", "unhandled exception", "absent")]
                          /\ pc' = [pc EXCEPT ![t] = "done"]
                          /\ UNCHANGED <<todo, results>>
                     ELSE /\ todo' = [todo EXCEPT ![t] = Tail(@)]
                          /\ results' = [results EXCEPT ![t] =
                                 IF o.result.got = "value" THEN Append(@, o.result)
                                                           ELSE @]
                          /\ UNCHANGED <<resp, pc>>
    /\ UNCHANGED <<conn_vars, op, attempt, ret, pend, cont>>
    /\ UNCHANGED <<logins, logouts, sleeps, last_att, probe, body, req>>

\* close_all_positions: one iteration of its loop, close_position() of the
\* next row; after the last row, the endpoint's response.
close_all_positions(t) ==
    /\ pc[t] = "close_all_loop"
    /\ IF todo[t] = <<>>
         THEN /\ resp' = [resp EXCEPT ![t] =
                    IF results[t] = <<>> THEN Success("No positions were closed")
                                         ELSE Success("Closed positions")]
              /\ pc' = [pc EXCEPT ![t] = "done"]
              /\ UNCHANGED <<ven, sends, todo, results>>
         ELSE \E o \in close_position([ticket |-> Some(Head(todo[t]).ticket)],
                                      CloseAllAnswers(Head(todo[t]))) :
                /\ ven' = [ven EXCEPT ![t].closes = Append(@, o.reads)]
                /\ sends' = [sends EXCEPT ![t] = @ \o o.request]
                /\ IF o.result.got = "raise"
                     THEN /\ resp' = [resp EXCEPT ![t] =
                                internal_error_response("close_all_positions")]
                          /\ pc' = [pc EXCEPT ![t] = "done"]
                          /\ UNCHANGED <<todo, results>>
                     ELSE /\ todo' = [todo EXCEPT ![t] = Tail(@)]
                          /\ results' = [results EXCEPT ![t] =
                                 IF o.result.got = "value" THEN Append(@, o.result)
                                                           ELSE @]
                          /\ UNCHANGED <<resp, pc>>
    /\ UNCHANGED <<conn_vars, op, attempt, ret, pend, cont>>
    /\ UNCHANGED <<logins, logouts, sleeps, last_att, probe, body, req>>

\* ------------------------------------- dry runs, calculations and queries

\* order_check_call giving the request to mt5.order_send().
order_check_call_submits(t, data, v, order_type, action, price) ==
    LET sl == data.sl
        tp == data.tp
        checked == validate_sl_tp(order_type, price, sl, tp)
        request_data ==
            [action |-> action, symbol |-> Value(data.symbol),
             volume |-> Value(data.volume), type |-> order_type,
             price |-> price, deviation |-> 20, magic |-> 0,
             type_filling |-> ORDER_FILLING_IOC, sl |-> sl, tp |-> tp]
    IN  IF (Present(sl) \/ Present(tp)) /\ ~checked.valid
          THEN Reply(t, data, v, <<>>, validation_error_response(checked.error))
          ELSE order_send(t, data, v, request_data, "order_check",
                          InvalidViewReturn, "valid")

\* order_check_endpoint from the SL/TP check on: the check, the request and
\* mt5.order_check() of it, which answers None, an exception, or a result
\* with a retcode (0 and TRADE_RETCODE_DONE both say the order is feasible).
\* A result that is not feasible is answered with 400 and a body of valid,
\* retcode, comment, margin and margin_free.
order_check_call(t, data, v, order_type, action, price) ==
    LET sl == data.sl
        tp == data.tp
        checked == validate_sl_tp(order_type, price, sl, tp)
    IN  IF (Present(sl) \/ Present(tp)) /\ ~checked.valid
          THEN Reply(t, data, v, <<>>, validation_error_response(checked.error))
          ELSE \E result \in {None, Raised, OrderResult(0),
                               OrderResult(TRADE_RETCODE_DONE),
                               OrderResult(TRADE_RETCODE_INVALID_STOPS)} :
                 LET v2 == [v EXCEPT !.order_check = result]
                 IN  IF result.got = "raise"
                       THEN Reply(t, data, v2, <<>>,
                                  internal_error_response("order_check"))
                     ELSE IF result.got = "none"
                       THEN Reply(t, data, v2, <<>>, InvalidViewReturn)
                     ELSE IF result.retcode # TRADE_RETCODE_DONE /\ result.retcode # 0
                       THEN Reply(t, data, v2, <<>>,
                              [Response(400, "absent", "absent", "absent")
                                 EXCEPT !.retcode = <<result.retcode>>])
                     ELSE Reply(t, data, v2, <<>>, Success("valid"))

\* order_check_endpoint from the choice of the price on.
order_check_price(t, data, v, order_type) ==
    IF order_type \in {ORDER_TYPE_BUY, ORDER_TYPE_SELL}
      THEN \E tick \in TickAnswers :
             LET v2 == [v EXCEPT !.tick = tick]
             IN  IF tick.got = "none"
                   THEN Reply(t, data, v2, <<>>,
                          validation_error_response("Failed to get symbol price"))
                   ELSE order_check_call(t, data, v2, order_type, TRADE_ACTION_DEAL,
                          IF order_type = ORDER_TYPE_BUY THEN tick.ask ELSE tick.bid)
    ELSE IF ~Present(data.price)
      THEN Reply(t, data, v, <<>>,
             validation_error_response("Price required for pending orders"))
    ELSE IF Value(data.price) <= 0
      THEN Reply(t, data, v, <<>>, validation_error_response("Price must be positive"))
    ELSE \E tick \in TickAnswers :
           IF tick.got = "none"
             THEN Reply(t, data, [v EXCEPT !.tick = tick], <<>>,
                    validation_error_response(
                      validate_pending_price(order_type, tick, Uncalled,
                                             Value(data.price)).error))
             ELSE \E info \in SymbolInfoAnswers :
                    LET v2 == [v EXCEPT !.tick = tick, !.price_info = info]
                        checked == validate_pending_price(
                                     order_type, tick, info, Value(data.price))
                    IN  IF ~checked.valid
                          THEN Reply(t, data, v2, <<>>,
                                 validation_error_response(checked.error))
                          ELSE order_check_call(t, data, v2, order_type,
                                 TRADE_ACTION_PENDING, Value(data.price))

\* order_check_endpoint (POST /order_check).  The bodies are those of POST
\* /order, fewer.
order_check_endpoint(t) ==
    /\ pc[t] = "body"
    /\ op[t] = "order_check"
    /\ \E data \in
         {[OrderData(Some("BUY"), Some(100), Absent, Absent, Absent, Absent)
             EXCEPT !.kind = "order_check", !.empty = TRUE],
          [OrderData(Some("BUY"), Some(100), Absent, Absent, Absent, Absent)
             EXCEPT !.kind = "order_check", !.malformed = TRUE],
          [OrderData(Some("BUY"), Absent, Absent, Absent, Absent, Absent)
             EXCEPT !.kind = "order_check"]}
         \cup {[OrderData(Some(ty), Some(vol), price, sl, Absent, Absent)
                  EXCEPT !.kind = "order_check"] :
                  ty \in {"BUY", "SELL_STOP", "HOLD"}, vol \in {0, 100},
                  price \in {Absent, Some(8), Some(11)}, sl \in {Absent, Some(16)}} :
         IF data.empty
           THEN Reply(t, data, NoVenue, <<>>,
                  validation_error_response("Order data is required"))
         ELSE IF ~(Present(data.symbol) /\ Present(data.volume) /\ Present(data.type))
           THEN Reply(t, data, NoVenue, <<>>,
                  validation_error_response("Missing required fields"))
         ELSE \E selected \in SymbolSelectAnswers :
                LET v == [NoVenue EXCEPT !.symbol_select = selected]
                    order_type_str == Upper(Value(data.type))
                IN  IF ~validate_symbol(selected)
                      THEN Reply(t, data, v, <<>>,
                             validation_error_response("Symbol not found or not selectable"))
                    ELSE IF order_type_str \notin DOMAIN ORDER_TYPE_MAP
                      THEN Reply(t, data, v, <<>>,
                             validation_error_response("Invalid order type"))
                    ELSE IF data.malformed
                      THEN Reply(t, data, v, <<>>, internal_error_response("order_check"))
                    ELSE IF Value(data.volume) <= 0
                      THEN Reply(t, data, v, <<>>,
                             validation_error_response("Volume must be positive"))
                    ELSE \E info \in SymbolInfoAnswers :
                           LET v2 == [v EXCEPT !.volume_info = info]
                               checked == validate_volume(info, Value(data.volume))
                           IN  IF ~checked.valid
                                 THEN Reply(t, data, v2, <<>>,
                                        validation_error_response(checked.error))
                                 ELSE order_check_price(t, data, v2,
                                        ORDER_TYPE_MAP[order_type_str])

\* The JSON bodies of POST /order_calc_margin and POST /order_calc_profit:
\* price stands for price (margin) and for price_open (profit), price_close
\* is read by the profit calculation only.
CalcRequests(kind) ==
    {[kind |-> kind, empty |-> TRUE, symbol |-> "EURUSD", type |-> "BUY",
      volume |-> 100, price |-> Some(8), price_close |-> Some(11)]}
    \cup {[kind |-> kind, empty |-> FALSE, symbol |-> "EURUSD", type |-> ty,
           volume |-> vol, price |-> price, price_close |-> price_close] :
            ty \in {"BUY", "SELL_STOP", "HOLD"}, vol \in {0, 100, 150},
            price \in {Absent, Some(0), Some(8)}, price_close \in {Absent, Some(11)}}

\* order_calc_margin_endpoint (POST /order_calc_margin).
\* mt5.order_calc_margin() answers None, an exception, or an amount; both
\* refusals of the amount are returned as ((response, 400), 400).
order_calc_margin_endpoint(t) ==
    /\ pc[t] = "body"
    /\ op[t] = "order_calc_margin"
    /\ \E data \in CalcRequests("order_calc_margin") :
         IF data.empty
           THEN Reply(t, data, NoVenue, <<>>,
                  validation_error_response("Order data is required"))
         ELSE IF ~Present(data.price)
           THEN Reply(t, data, NoVenue, <<>>,
                  validation_error_response("Missing required fields"))
         ELSE \E selected \in SymbolSelectAnswers :
                LET v == [NoVenue EXCEPT !.symbol_select = selected]
                IN  IF ~validate_symbol(selected)
                      THEN Reply(t, data, v, <<>>,
                             validation_error_response("Symbol not found or not selectable"))
                    ELSE IF data.type \notin DOMAIN ORDER_TYPE_MAP
                      THEN Reply(t, data, v, <<>>,
                             validation_error_response("Invalid order type"))
                    ELSE IF data.volume <= 0
                      THEN Reply(t, data, v, <<>>,
                             validation_error_response("Volume must be positive"))
                    ELSE IF Value(data.price) <= 0
                      THEN Reply(t, data, v, <<>>,
                             validation_error_response("Price must be positive"))
                    ELSE \E info \in SymbolInfoAnswers :
                           LET v2 == [v EXCEPT !.volume_info = info]
                               checked == validate_volume(info, data.volume)
                           IN  IF ~checked.valid
                                 THEN Reply(t, data, v2, <<>>,
                                        validation_error_response(checked.error))
                                 ELSE \E margin \in {None, Raised, [got |-> "value", value |-> -1],
                                                   [got |-> "value", value |-> 5]} :
                                   LET v3 == [v2 EXCEPT !.order_calc = margin]
                                   IN  IF margin.got = "raise"
                                         THEN Reply(t, data, v3, <<>>,
                                                internal_error_response("order_calc_margin"))
                                       ELSE IF margin.got = "none" \/ margin.value < 0
                                         THEN Reply(t, data, v3, <<>>, InvalidViewReturn)
                                       ELSE Reply(t, data, v3, <<>>, Success("margin"))

\* order_calc_profit_endpoint (POST /order_calc_profit): BUY and SELL only.
order_calc_profit_endpoint(t) ==
    /\ pc[t] = "body"
    /\ op[t] = "order_calc_profit"
    /\ \E data \in CalcRequests("order_calc_profit") :
         IF data.empty
           THEN Reply(t, data, NoVenue, <<>>,
                  validation_error_response("Order data is required"))
         ELSE IF ~(Present(data.price) /\ Present(data.price_close))
           THEN Reply(t, data, NoVenue, <<>>,
                  validation_error_response("Missing required fields"))
         ELSE \E selected \in SymbolSelectAnswers :
                LET v == [NoVenue EXCEPT !.symbol_select = selected]
                IN  IF ~validate_symbol(selected)
                      THEN Reply(t, data, v, <<>>,
                             validation_error_response("Symbol not found or not selectable"))
                    ELSE IF data.type \notin {"BUY", "SELL"}
                      THEN Reply(t, data, v, <<>>,
                             validation_error_response("Invalid order type"))
                    ELSE IF data.volume <= 0
                      THEN Reply(t, data, v, <<>>,
                             validation_error_response("Volume must be positive"))
                    ELSE IF Value(data.price) <= 0
                      THEN Reply(t, data, v, <<>>,
                             validation_error_response("Opening price must be positive"))
                    ELSE IF Value(data.price_close) <= 0
                      THEN Reply(t, data, v, <<>>,
                             validation_error_response("Closing price must be positive"))
                    ELSE \E info \in SymbolInfoAnswers :
                           LET v2 == [v EXCEPT !.volume_info = info]
                               checked == validate_volume(info, data.volume)
                           IN  IF ~checked.valid
                                 THEN Reply(t, data, v2, <<>>,
                                        validation_error_response(checked.error))
                                 ELSE \E profit \in {None, Raised, [got |-> "value", value |-> -1],
                                                   [got |-> "value", value |-> 5]} :
                                   LET v3 == [v2 EXCEPT !.order_calc = profit]
                                   IN  IF profit.got = "raise"
                                         THEN Reply(t, data, v3, <<>>,
                                                internal_error_response("order_calc_profit"))
                                       ELSE IF profit.got = "none"
                                         THEN Reply(t, data, v3, <<>>, InvalidViewReturn)
                                       ELSE Reply(t, data, v3, <<>>, Success("profit"))

\* get_pending_orders (GET /orders).  ticket and symbol of the query string
\* are optional, and the ticket may be no integer.
get_pending_orders(t) ==
    /\ pc[t] = "body"
    /\ op[t] = "orders"
    /\ \E args \in {[kind |-> "orders", ticket |-> ticket, symbol |-> symbol] :
                      ticket \in {Absent, Some("1"), Some("x")},
                      symbol \in {Absent, Some("EURUSD")}} :
         LET listed(v) ==
               \E orders \in OrdersGetAnswers(1) :
                   Reply(t, args, [v EXCEPT !.orders_get = orders], <<>>,
                         IF orders.got = "none"
                           THEN Response(503, "connection_error",
                                         "Failed to retrieve pending orders", "absent")
                           ELSE Success("orders"))
         IN  IF Present(args.ticket)
               THEN IF Value(args.ticket) # "1"
                      THEN Reply(t, args, NoVenue, <<>>,
                             validation_error_response("Ticket must be an integer"))
                      ELSE listed(NoVenue)
             ELSE IF Present(args.symbol)
               THEN \E selected \in SymbolSelectAnswers :
                      LET v == [NoVenue EXCEPT !.symbol_select = selected]
                      IN  IF ~validate_symbol(selected)
                            THEN Reply(t, args, v, <<>>,
                                   validation_error_response("Invalid symbol"))
                            ELSE listed(v)
             ELSE listed(NoVenue)

\* positions_total_endpoint (GET /positions_total).
positions_total_endpoint(t) ==
    /\ pc[t] = "body"
    /\ op[t] = "positions_total"
    /\ \E total \in PositionsTotalAnswers :
         Reply(t, NoRequest, [NoVenue EXCEPT !.positions_total = total], <<>>,
               IF total.got = "none"
                 THEN validation_error_response("Failed to get positions total")
                 ELSE Success("total"))

\* ---------------------------------------------------- requests and calls

\* Where operation o starts.
FirstStep(o) ==
    CASE o = "initialize" -> "init_loop"
      [] o = "shutdown" -> "sd_check"
      [] o = "ready" -> "ready_check"
      [] o = "health" -> "health_check"
      [] o = "live" -> "live_check"
      [] OTHER -> "ec_check"

\* Thread t begins operation o: conn.initialize() at start-up,
\* conn.shutdown() of the shutdown handler, or a request.
Begin(t, o) ==
    /\ pc[t] = "idle"
    /\ op' = [op EXCEPT ![t] = o]
    /\ pc' = [pc EXCEPT ![t] = FirstStep(o)]
    /\ UNCHANGED <<conn_vars, attempt, ret, pend, cont>>
    /\ UNCHANGED <<hist_vars, resp>>

\* Thread t's operation is over; its locals go away.
Finish(t) ==
    /\ pc[t] = "done"
    /\ pc' = [pc EXCEPT ![t] = "idle"]
    /\ op' = [op EXCEPT ![t] = "none"]
    /\ attempt' = [attempt EXCEPT ![t] = 0]
    /\ ret' = [ret EXCEPT ![t] = "unset"]
    /\ pend' = [pend EXCEPT ![t] = NoError]
    /\ cont' = [cont EXCEPT ![t] = "idle"]
    /\ logins' = Record(logins, t, 0)
    /\ logouts' = Record(logouts, t, <<>>)
    /\ sleeps' = Record(sleeps, t, <<>>)
    /\ last_att' = Record(last_att, t, NoAttempt)
    /\ probe' = Record(probe, t, "uncalled")
    /\ resp' = [resp EXCEPT ![t] = NoResponse]
    /\ body' = [body EXCEPT ![t] = FALSE]
    /\ req' = [req EXCEPT ![t] = NoRequest]
    /\ ven' = [ven EXCEPT ![t] = NoVenue]
    /\ sends' = [sends EXCEPT ![t] = <<>>]
    /\ todo' = [todo EXCEPT ![t] = <<>>]
    /\ results' = [results EXCEPT ![t] = <<>>]
    /\ UNCHANGED conn_vars

\* A step of the connection manager in thread t.
ConnectionStep(t) ==
    \/ set_status_error(t)
    \/ initialize_loop(t)
    \/ initialize_attempt(t)
    \/ initialize_backoff(t)
    \/ ensure_connection_check(t)
    \/ ensure_connection_probe(t)
    \/ shutdown_check(t)
    \/ shutdown_logout(t)
    \/ require_mt5_connection(t)
    \/ ready_check(t)
    \/ ready_body(t)
    \/ health_check(t)
    \/ health_check_account(t)
    \/ liveness_check(t)
    \/ get_account_info(t)
    \/ Finish(t)

\* A step of a trading handler in thread t.
HandlerStep(t) ==
    \/ send_market_order_endpoint(t)
    \/ cancel_order(t)
    \/ modify_order(t)
    \/ close_position_endpoint(t)
    \/ close_position_partial_endpoint(t)
    \/ close_all_positions_endpoint(t)
    \/ close_all_positions(t)
    \/ modify_sl_tp_endpoint(t)
    \/ order_check_endpoint(t)
    \/ order_calc_margin_endpoint(t)
    \/ order_calc_profit_endpoint(t)
    \/ get_pending_orders(t)
    \/ positions_total_endpoint(t)

\* One caller: every operation runs to its end before the next begins.
Next ==
    \/ \E o \in Ops : Begin(1, o)
    \/ ConnectionStep(1)

Spec == Init /\ [][Next]_vars

\* Request threads that interleave at every step.
NextConc ==
    \E t \in Threads :
        \/ \E o \in Ops : Begin(t, o)
        \/ ConnectionStep(t)

SpecConc == InitConc /\ [][NextConc]_vars

\* The settings when the environment sets neither variable.
DefaultReconnectAttempts == 3
DefaultBaseDelay == 1

InitApi ==
    /\ Constructed
    /\ max_reconnect_attempts = DefaultReconnectAttempts
    /\ base_delay = DefaultBaseDelay
    /\ recording = FALSE

\* One caller of every operation, the trading handlers included.
NextApi ==
    \/ \E o \in UnguardedOps \cup GuardedOps : Begin(1, o)
    \/ ConnectionStep(1)
    \/ HandlerStep(1)

SpecApi == InitApi /\ [][NextApi]_vars

\* --------------------------------- a venue whose reachability is fixed

\* The manager at rest, as __init__ or an earlier operation left it: never
\* used, connected, or disconnected after the last attempt failed; the
\* venue is up or down and stays so.
InitFixed ==
    /\ instance = 1
    /\ built = 1
    /\ NoCaller
    /\ Idle
    /\ \E st \in {<<DISCONNECTED, NoError>>, <<CONNECTED, NoError>>,
                   <<DISCONNECTED, FinalErrorMsg(max_reconnect_attempts)>>} :
         /\ status = st[1]
         /\ last_error = st[2]
    /\ recording = FALSE
    /\ venue \in {"up", "down"}

\* Request threads in the guard and the start-up initialize(), interleaved
\* at every step.
NextFixed ==
    \E t \in Threads :
        \/ Begin(t, "account")
        \/ Begin(t, "initialize")
        \/ set_status_error(t)
        \/ initialize_loop(t)
        \/ initialize_attempt(t)
        \/ initialize_backoff(t)
        \/ ensure_connection_check(t)
        \/ ensure_connection_probe(t)
        \/ require_mt5_connection(t)
        \/ get_account_info(t)
        \/ Finish(t)

SpecFixed == InitFixed /\ [][NextFixed]_vars

\* A step of thread t's operation once it has begun: the thread is
\* scheduled, its venue calls return and its sleeps end.
Running(t) ==
    \/ set_status_error(t)
    \/ initialize_loop(t)
    \/ initialize_attempt(t)
    \/ initialize_backoff(t)
    \/ ensure_connection_check(t)
    \/ ensure_connection_probe(t)
    \/ require_mt5_connection(t)
    \/ get_account_info(t)

\* SpecFixed with every thread that has begun an operation going on with it.
SpecFixedFair == SpecFixed /\ \A t \in Threads : WF_vars(Running(t))

\* Spec with its one caller going on with the operation it has begun,
\* whatever the venue answers.
SpecFair == Spec /\ WF_vars(Running(1))

\* ------------------------------------------- shutdown during a call

\* The shutdown handler of app.py against a call in flight: thread 1 runs
\* conn.initialize() (start-up) or a guarded request, and begins one only
\* while no shutdown has begun; thread 2 is the signal or atexit handler,
\* which runs conn.shutdown() once, at any point of thread 1's call, and
\* stays returned.
NextShutdown ==
    \/ pc[2] = "idle" /\ \E o \in {"initialize", "account"} : Begin(1, o)
    \/ Begin(2, "shutdown")
    \/ shutdown_check(2)
    \/ shutdown_logout(2)
    \/ \E t \in Threads : set_status_error(t)
    \/ initialize_loop(1)
    \/ initialize_attempt(1)
    \/ initialize_backoff(1)
    \/ ensure_connection_check(1)
    \/ ensure_connection_probe(1)
    \/ require_mt5_connection(1)
    \/ get_account_info(1)
    \/ Finish(1)

SpecShutdown == InitConc /\ [][NextShutdown]_vars

\* ------------------------------------------ MT5Connection.get_instance

\* Everything but the class attributes and the callers of get_instance().
object_vars ==
    <<status, last_error, max_reconnect_attempts, base_delay, recording, fn,
      venue, call_vars, hist_vars, resp>>

\* The process before the first get_instance(): _instance is None, no
\* object has been constructed.  The fields are the ones __init__ will set.
InitInstance ==
    /\ instance = 0
    /\ built = 0
    /\ NoCaller
    /\ Fields
    /\ venue = "any"
    /\ max_reconnect_attempts = DefaultReconnectAttempts
    /\ base_delay = DefaultBaseDelay
    /\ recording = FALSE

\* Caller c calls MT5Connection.get_instance().
get_instance_call(c) ==
    /\ ipc[c] \in {"idle", "done"}
    /\ ipc' = [ipc EXCEPT ![c] = "check"]
    /\ got' = [got EXCEPT ![c] = 0]
    /\ UNCHANGED <<instance, lock, built, made, object_vars>>

\* if cls._instance is None: the read outside the lock.
get_instance_check(c) ==
    /\ ipc[c] = "check"
    /\ ipc' = [ipc EXCEPT ![c] = IF instance = 0 THEN "acquire" ELSE "return"]
    /\ UNCHANGED <<instance, lock, built, made, got, object_vars>>

\* with cls._lock: the caller waits until the lock is free and takes it.
get_instance_acquire(c) ==
    /\ ipc[c] = "acquire"
    /\ lock = 0
    /\ lock' = c
    /\ ipc' = [ipc EXCEPT ![c] = "locked_check"]
    /\ UNCHANGED <<instance, built, made, got, object_vars>>

\* get_instance with no second check once the lock is held.
get_instance_single_check(c) ==
    /\ ipc[c] = "locked_check"
    /\ ipc' = [ipc EXCEPT ![c] = "construct"]
    /\ UNCHANGED <<instance, lock, built, made, got, object_vars>>

\* if cls._instance is None: the read inside the lock.
get_instance_locked_check(c) ==
    /\ ipc[c] = "locked_check"
    /\ ipc' = [ipc EXCEPT ![c] = IF instance = 0 THEN "construct" ELSE "release"]
    /\ UNCHANGED <<instance, lock, built, made, got, object_vars>>

\* cls(): a new object, __init__ run on it.
get_instance_construct(c) ==
    /\ ipc[c] = "construct"
    /\ built' = built + 1
    /\ made' = [made EXCEPT ![c] = built + 1]
    /\ ipc' = [ipc EXCEPT ![c] = "assign"]
    /\ UNCHANGED <<instance, lock, got, object_vars>>

\* cls._instance = <the new object>.
get_instance_assign(c) ==
    /\ ipc[c] = "assign"
    /\ instance' = made[c]
    /\ ipc' = [ipc EXCEPT ![c] = "release"]
    /\ UNCHANGED <<lock, built, made, got, object_vars>>

\* The end of the with block: the lock is released.
get_instance_release(c) ==
    /\ ipc[c] = "release"
    /\ lock = c
    /\ lock' = 0
    /\ ipc' = [ipc EXCEPT ![c] = "return"]
    /\ UNCHANGED <<instance, built, made, got, object_vars>>

\* return cls._instance
get_instance_return(c) ==
    /\ ipc[c] = "return"
    /\ got' = [got EXCEPT ![c] = instance]
    /\ ipc' = [ipc EXCEPT ![c] = "done"]
    /\ UNCHANGED <<instance, lock, built, made, object_vars>>

\* Any number of threads in get_instance(), interleaved at every read and
\* write of the class attributes.
NextInstance ==
    \E c \in Callers :
        \/ get_instance_call(c)
        \/ get_instance_check(c)
        \/ get_instance_acquire(c)
        \/ get_instance_locked_check(c)
        \/ get_instance_construct(c)
        \/ get_instance_assign(c)
        \/ get_instance_release(c)
        \/ get_instance_return(c)

SpecInstance == InitInstance /\ [][NextInstance]_vars

\* ------------------------------ validators and classifier on their own

\* Everything but fn.
rest_vars ==
    <<status, last_error, max_reconnect_attempts, base_delay, recording,
      inst_vars, venue, call_vars, hist_vars, resp>>

\* The non-success return codes and the mt5.last_error() codes explored.
RetcodeInputs == {r \in 10004..10021 : r # TRADE_RETCODE_DONE}
ErrorCodeInputs == {-1, 1} \cup (10003..10007)

\* mt5_error_response(operation, result) with mt5.last_error() answering
\* error_code.
call_mt5_error_response ==
    /\ fn = NoCall
    /\ \E retcode \in RetcodeInputs, error_code \in ErrorCodeInputs :
         fn' = [name |-> "mt5_error_response", retcode |-> retcode,
                error_code |-> error_code,
                result |-> mt5_error_response("operation", retcode, error_code)]
    /\ UNCHANGED rest_vars

\* The answers of mt5.symbol_info() given to validate_volume: none, a grid
\* of 100 from 100 to 500, a maximum off the grid, a grid of 50, no grid.
VolumeInfoInputs ==
    {None, SymbolInfo(100, 500, 100, 2, 1, 2), SymbolInfo(100, 450, 100, 2, 1, 2),
     SymbolInfo(200, 500, 50, 2, 1, 2), SymbolInfo(100, 500, 0, 2, 1, 2)}

\* validate_volume(symbol, volume) with mt5.symbol_info() answering
\* symbol_info.
call_validate_volume ==
    /\ fn = NoCall
    /\ \E symbol_info \in VolumeInfoInputs, volume \in 0..MaxVolume :
         fn' = [name |-> "validate_volume", symbol_info |-> symbol_info,
                volume |-> volume,
                result |-> validate_volume(symbol_info, volume)]
    /\ UNCHANGED rest_vars

\* The call has returned and its value has been used.
call_return ==
    /\ fn # NoCall
    /\ fn' = NoCall
    /\ UNCHANGED rest_vars

\* The six order types, and the optional stop levels from -1 to one point
\* above the largest price.
OrderTypeInputs == ORDER_TYPE_BUY..ORDER_TYPE_SELL_STOP
StopInputs == {Absent} \cup {Some(x) : x \in -1..(MaxPrice + 1)}

\* validate_sl_tp(order_type, price, sl, tp)
call_validate_sl_tp ==
    /\ fn = NoCall
    /\ \E order_type \in OrderTypeInputs, price \in 1..MaxPrice,
          sl \in StopInputs, tp \in StopInputs :
         fn' = [name |-> "validate_sl_tp", order_type |-> order_type,
                price |-> price, sl |-> sl, tp |-> tp,
                result |-> validate_sl_tp(order_type, price, sl, tp)]
    /\ UNCHANGED rest_vars

\* The ticks (bid <= ask) and the freeze levels given to
\* validate_pending_price.
TickInputs ==
    {None} \cup {Tick(bid, ask) : bid \in 1..MaxPrice, ask \in 1..MaxPrice}
FreezeInfoInputs ==
    {None} \cup {SymbolInfo(100, 500, 100, trade_freeze_level, point, 2) :
                   trade_freeze_level \in 0..2, point \in 1..2}

\* validate_pending_price(order_type, symbol, price) with
\* mt5.symbol_info_tick() and mt5.symbol_info() answering tick and
\* symbol_info.
call_validate_pending_price ==
    /\ fn = NoCall
    /\ \E order_type \in OrderTypeInputs, tick \in TickInputs,
          symbol_info \in FreezeInfoInputs, price \in 1..MaxPrice :
         /\ tick.got = "value" => tick.bid <= tick.ask
         /\ fn' = [name |-> "validate_pending_price", order_type |-> order_type,
                   tick |-> tick, symbol_info |-> symbol_info, price |-> price,
                   result |-> validate_pending_price(order_type, tick,
                                                     symbol_info, price)]
    /\ UNCHANGED rest_vars

\* The symbol metadata given to get_symbol_filling_mode: unavailable, or
\* with any filling bitmask.
FillingInfoInputs ==
    {None} \cup {SymbolInfo(100, 500, 100, 2, 1, filling_mode) :
                   filling_mode \in 0..MaxFillingMask}

\* get_symbol_filling_mode(symbol_name) with mt5.symbol_info() answering
\* symbol_info.
call_get_symbol_filling_mode ==
    /\ fn = NoCall
    /\ \E symbol_info \in FillingInfoInputs :
         fn' = [name |-> "get_symbol_filling_mode", symbol_info |-> symbol_info,
                result |-> get_symbol_filling_mode(symbol_info)]
    /\ UNCHANGED rest_vars

\* The validators and the classifier, each called with every input explored.
NextFn ==
    \/ call_return
    \/ call_get_symbol_filling_mode
    \/ call_validate_pending_price
    \/ call_validate_sl_tp
    \/ call_mt5_error_response
    \/ call_validate_volume

SpecFn == InitApi /\ [][NextFn]_vars

\* ============================================================== claims

\* The venue answers of a login attempt that succeeds.
SuccessfulAttempt ==
    [handshake |-> "ok", account_info |-> "data", last_error |-> "uncalled"]

\* Thread t's operation has entered initialize().
RanInitialize(t) ==
    \/ /\ op[t] = "initialize"
       /\ pc[t] # "idle"
    \/ /\ op[t] \in GuardedOps
       /\ pc[t] \notin {"idle", "ec_check", "ec_probe"}
       /\ probe[t] # "data"
       /\ ~(probe[t] # "uncalled" /\ pc[t] = "set_error" /\ cont[t] = "init_loop")

\* initialize() has returned to thread t's operation.
InitializeReturned(t) ==
    /\ RanInitialize(t)
    /\ ret[t] # "unset"
    /\ pc[t] # "set_error"

\* ---- C1
\* Thread t is inside ensure_connection(), or at the guard's test of its
\* value.
InEnsureConnection(t) ==
    pc[t] \in {"ec_check", "ec_probe", "init_loop", "init_login", "init_backoff",
              "set_error", "guard"}

\* Nothing of the handler has happened for thread t's request: it was not
\* called, read no request data and no venue answer, submitted nothing.
HandlerUntouched(t) ==
    /\ ~body[t]
    /\ req[t] = NoRequest
    /\ ven[t] = NoVenue
    /\ sends[t] = <<>>

\* The 503 of the connection guard.
GuardUnavailable(r) ==
    /\ r.code = 503
    /\ r.error = "MT5 unavailable"

C1_GuardState ==
    \A t \in Threads :
        op[t] \in GuardedOps =>
            /\ InEnsureConnection(t) => HandlerUntouched(t)
            /\ body[t] => ret[t] = "true"
            /\ (pc[t] = "done" /\ ret[t] = "false") =>
                   GuardUnavailable(resp[t]) /\ HandlerUntouched(t)

C1_GuardStep ==
    \A t \in Threads :
        /\ (pc[t] = "idle" /\ op'[t] \in GuardedOps) => pc'[t] = "ec_check"
        /\ (pc[t] = "guard" /\ ret[t] = "false") =>
               pc'[t] = "done" /\ GuardUnavailable(resp'[t])

\* C1: a guarded operation begins with ensure_connection() and nothing of
\* its handler happens before that has returned; when it returns failure the
\* next step is the 503 response, the handler is never called, and the
\* request ends with no request data read, no venue read of the handler and
\* no order_send().
C1_GuardedOperationsNeedConnection == []C1_GuardState /\ [][C1_GuardStep]_vars

\* A POST /order request refused by the guard after the login attempts ran
\* out.
C1_Witness ==
    /\ op[1] = "order"
    /\ pc[1] = "done"
    /\ ret[1] = "false"
    /\ status = DISCONNECTED
    /\ resp[1].code = 503

\* ---- C2
\* The six order type names.
KnownOrderTypes ==
    {"BUY", "SELL", "BUY_LIMIT", "SELL_LIMIT", "BUY_STOP", "SELL_STOP"}

\* The type of a request whose type is known is a market type.
IsMarketRequest(d) == Upper(Value(d.type)) \in {"BUY", "SELL"}

\* The entry price of an accepted request: the tick's ask or bid for a
\* market order, the requested price for a pending order.
EntryPrice(d, v) ==
    IF IsMarketRequest(d)
      THEN IF Upper(Value(d.type)) = "BUY" THEN v.tick.ask ELSE v.tick.bid
      ELSE Value(d.price)

\* Every validation of POST /order passes for request d with the venue
\* answers v.
OrderValidationsPass(d, v) ==
    /\ ~d.empty
    /\ Present(d.symbol) /\ Present(d.volume) /\ Present(d.type)
    /\ v.symbol_select.got = "value" /\ v.symbol_select.value
    /\ Upper(Value(d.type)) \in KnownOrderTypes
    /\ ~d.malformed
    /\ Value(d.volume) > 0
    /\ v.volume_info.got # "uncalled"
    /\ validate_volume(v.volume_info, Value(d.volume)).valid
    /\ v.tick.got = "value"
    /\ ~IsMarketRequest(d) =>
           /\ Present(d.price)
           /\ Value(d.price) > 0
           /\ v.price_info.got # "uncalled"
           /\ validate_pending_price(ORDER_TYPE_MAP[Upper(Value(d.type))], v.tick,
                                     v.price_info, Value(d.price)).valid
    /\ (Present(d.sl) \/ Present(d.tp)) =>
           validate_sl_tp(ORDER_TYPE_MAP[Upper(Value(d.type))], EntryPrice(d, v),
                          d.sl, d.tp).valid

\* C2: in POST /order, order_send() is called only when every validation
\* has passed (required fields, symbol, order type, volume, pending price,
\* SL/TP); a request that fails a validation is answered with a 400
\* validation_error and no order_send() call.  A volume that is not a number
\* and a tick read that raises never reach order_send() either.
C2_OrderSentOnlyWhenValid ==
    \A t \in Threads :
        (op[t] = "order" /\ body[t]) =>
            /\ sends[t] # <<>> => OrderValidationsPass(req[t], ven[t])
            /\ (~req[t].malformed /\ ven[t].tick.got # "raise"
                  /\ ~OrderValidationsPass(req[t], ven[t])) =>
                   /\ sends[t] = <<>>
                   /\ resp[t].code = 400
                   /\ resp[t].error_type = "validation_error"

\* A pending order with a stop loss and a take profit that went through
\* every validation and was submitted.
C2_Witness ==
    /\ op[1] = "order"
    /\ pc[1] = "done"
    /\ req[1].type = Some("BUY_LIMIT")
    /\ Present(req[1].sl) /\ Present(req[1].tp)
    /\ Len(sends[1]) = 1
    /\ resp[1].code = 200

\* ---- C3
\* The write operations.
WriteOps ==
    {"order", "modify_order", "cancel_order", "close_position", "close_partial",
     "close_all", "modify_sl_tp"}

\* The statement as written: at most one order_send() per request, for
\* every write operation, close all positions included.
C3_OneSubmissionPerRequest ==
    \A t \in Threads : op[t] \in WriteOps => Len(sends[t]) <= 1

\* The rows close_all_positions found eligible in thread t's request.
EligibleRows(t) ==
    FilterPositions(ven[t].positions_get.items, Get(req[t].order_type, "all"),
                    req[t].magic)

\* C3 (amended): every write operation but close all positions makes at
\* most one order_send() call per request; close all positions makes at most
\* one per eligible position, each for a different eligible ticket, so that
\* no request is ever submitted a second time, whatever the first answer was.
C3_NoResubmission ==
    \A t \in Threads :
        /\ op[t] \in WriteOps \ {"close_all"} => Len(sends[t]) <= 1
        /\ (op[t] = "close_all" /\ sends[t] # <<>>) =>
               /\ Len(sends[t]) <= Len(EligibleRows(t))
               /\ \A i \in 1..Len(sends[t]) :
                      /\ \E k \in 1..Len(EligibleRows(t)) :
                             EligibleRows(t)[k].ticket = sends[t][i].position
                      /\ \A j \in 1..Len(sends[t]) :
                             sends[t][i].position = sends[t][j].position => i = j

\* A close-all request whose first closure got None from order_send() and
\* which went on to submit the closure of the second position.
C3_Witness ==
    /\ op[1] = "close_all"
    /\ pc[1] = "done"
    /\ Len(sends[1]) = 2
    /\ ven[1].closes[1].order_send = None
    /\ sends[1][1].position # sends[1][2].position

\* ---- C11
\* C11: a result with a non-success return code is answered 503
\* connection_error exactly when the last diagnostic code is 10004, 10005 or
\* 10006 or the return code is 10018, 10019 or 10020; otherwise it is
\* answered 400 mt5_rejected; the body carries the return code.
C11_Classification ==
    fn.name = "mt5_error_response" =>
        LET fault == \/ fn.error_code \in {10004, 10005, 10006}
                     \/ fn.retcode \in {10018, 10019, 10020}
        IN  /\ fault <=> (fn.result.code = 503 /\ fn.result.error_type = "connection_error")
            /\ ~fault <=> (fn.result.code = 400 /\ fn.result.error_type = "mt5_rejected")
            /\ fn.result.retcode = <<fn.retcode>>

\* A timeout return code with an unremarkable diagnostic code: 503.
C11_Witness ==
    /\ fn.name = "mt5_error_response"
    /\ fn.retcode = 10019
    /\ fn.error_code = 1
    /\ fn.result.code = 503

\* ---- C12
\* Thread t's POST /close_position has ended and the venue answered its
\* order_send() with a non-success return code.
CloseRefusedByVenue(t) ==
    /\ op[t] = "close_position"
    /\ pc[t] = "done"
    /\ Len(ven[t].closes) = 1
    /\ ven[t].closes[1].order_send.got = "value"
    /\ ven[t].closes[1].order_send.retcode # TRADE_RETCODE_DONE

\* C12: when the venue answers a full-position close with a non-success
\* return code, the response is the classification send, modify and cancel
\* give: 503 connection_error or 400 mt5_rejected, with the return code, and
\* 503 when the return code is 10018, 10019 or 10020.
C12_CloseClassified ==
    \A t \in Threads :
        CloseRefusedByVenue(t) =>
            LET retcode == ven[t].closes[1].order_send.retcode
            IN  /\ resp[t].error_type \in {"connection_error", "mt5_rejected"}
                /\ resp[t].retcode = <<retcode>>
                /\ retcode \in {10018, 10019, 10020} => resp[t].code = 503

\* ---- C13
\* The distance of volume v to the nearest point of the grid
\* volume_min + n * volume_step, for v >= volume_min and volume_step > 0.
GridDistance(v, volume_min, volume_step) ==
    LET d == (v - volume_min) % volume_step
    IN  IF d <= volume_step - d THEN d ELSE volume_step - d

\* C13: with symbol info at hand and a positive volume_step, validate_volume
\* rejects every volume below volume_min or above volume_max; between them
\* it accepts every volume volume_min + n * volume_step and rejects every
\* volume farther than 1% of volume_step from the nearest such volume.
C13_VolumeGrid ==
    (fn.name = "validate_volume" /\ fn.symbol_info.got = "value"
       /\ fn.symbol_info.volume_step > 0) =>
        LET info == fn.symbol_info
            v == fn.volume
            in_range == info.volume_min <= v /\ v <= info.volume_max
            dist == GridDistance(v, info.volume_min, info.volume_step)
        IN  /\ ~in_range => ~fn.result.valid
            /\ (in_range /\ dist = 0) => fn.result.valid
            /\ (in_range /\ dist * 100 > info.volume_step) => ~fn.result.valid

\* A volume in range, 2% of a step above a grid point: rejected.
C13_Witness ==
    /\ fn.name = "validate_volume"
    /\ fn.symbol_info = SymbolInfo(100, 500, 100, 2, 1, 2)
    /\ fn.volume = 302
    /\ ~fn.result.valid

\* ---- C14
\* Stop loss sl and take profit tp are rightly placed around the entry price
\* of an order of the given side.
StopsWellPlaced(buy_side, price, sl, tp) ==
    /\ Present(sl) => /\ Value(sl) > 0
                      /\ IF buy_side THEN Value(sl) < price ELSE Value(sl) > price
    /\ Present(tp) => /\ Value(tp) > 0
                      /\ IF buy_side THEN Value(tp) > price ELSE Value(tp) < price

\* C14: validate_sl_tp accepts exactly when every present sl and tp is
\* positive and, for Buy, BuyLimit and BuyStop, sl < entry price < tp, for
\* the sell types tp < entry price < sl; a level equal to the entry price is
\* rejected, absent levels are accepted.
C14_StopLossTakeProfit ==
    fn.name = "validate_sl_tp" =>
        (fn.result.valid <=>
            StopsWellPlaced(fn.order_type \in {0, 2, 4}, fn.price, fn.sl, fn.tp))

\* A Buy with the stop loss at the entry price: rejected.
C14_Witness ==
    /\ fn.name = "validate_sl_tp"
    /\ fn.order_type = ORDER_TYPE_BUY
    /\ fn.price = 3
    /\ fn.sl = Some(3)
    /\ fn.tp = Some(4)
    /\ ~fn.result.valid

\* ---- C15
\* The pending price is at least the freeze distance from the reference
\* price (ask for BuyLimit 2 and BuyStop 4, bid for SellLimit 3 and
\* SellStop 5) and on the right side of it.
PendingPriceWellPlaced(order_type, bid, ask, freeze_distance, price) ==
    LET reference == IF order_type \in {2, 4} THEN ask ELSE bid
        away == IF price >= reference THEN price - reference ELSE reference - price
    IN  /\ away >= freeze_distance
        /\ order_type = 2 => price < ask
        /\ order_type = 3 => price > bid
        /\ order_type = 4 => price > ask
        /\ order_type = 5 => price < bid

\* C15: with the tick and the symbol info at hand, validate_pending_price
\* accepts the price of a BuyLimit, SellLimit, BuyStop or SellStop exactly
\* when |price - reference| >= trade_freeze_level * point and the price is
\* on the side of the reference price its type asks for.
C15_PendingPrice ==
    (fn.name = "validate_pending_price" /\ fn.order_type \in 2..5
       /\ fn.tick.got = "value" /\ fn.symbol_info.got = "value") =>
        (fn.result.valid <=>
            PendingPriceWellPlaced(fn.order_type, fn.tick.bid, fn.tick.ask,
                fn.symbol_info.trade_freeze_level * fn.symbol_info.point,
                fn.price))

\* A BuyLimit below the ask but inside the freeze distance: rejected.
C15_Witness ==
    /\ fn.name = "validate_pending_price"
    /\ fn.order_type = ORDER_TYPE_BUY_LIMIT
    /\ fn.tick = Tick(4, 5)
    /\ fn.symbol_info = SymbolInfo(100, 500, 100, 2, 1, 2)
    /\ fn.price = 4
    /\ ~fn.result.valid

\* ---- C16
\* C16: for every filling bitmask get_symbol_filling_mode returns IOC (1)
\* if bit 2 is set, else RETURN (2) if bit 4 is set, else FOK (0) if bit 1
\* is set, else RETURN; and RETURN when the symbol metadata is unavailable.
C16_FillingMode ==
    fn.name = "get_symbol_filling_mode" =>
        IF fn.symbol_info.got = "none" THEN fn.result = 2
        ELSE LET mask == fn.symbol_info.filling_mode
             IN  fn.result = IF mask % 4 >= 2 THEN 1
                             ELSE IF mask % 8 >= 4 THEN 2
                             ELSE IF mask % 2 = 1 THEN 0
                             ELSE 2

\* The mask with bits 1 and 4 but not bit 2: RETURN goes before FOK.
C16_Witness ==
    /\ fn.name = "get_symbol_filling_mode"
    /\ fn.symbol_info = SymbolInfo(100, 500, 100, 2, 1, 5)
    /\ fn.result = ORDER_FILLING_RETURN

\* ---- C17
\* Thread t's POST /close_position_partial has ended after it found the
\* live position of the requested ticket.
PartialFound(t) ==
    /\ op[t] = "close_partial"
    /\ pc[t] = "done"
    /\ body[t]
    /\ ven[t].positions_get.got = "value"
    /\ Len(ven[t].positions_get.items) > 0

\* C17: a partial close of a volume greater than or equal to the live
\* position's volume is answered with a 400 validation_error that points to
\* /close_position, and nothing is sent to the venue; a partial close of a
\* positive volume below the live volume sends, once the tick is read and
\* the position type is 0 or 1, exactly one TRADE_ACTION_DEAL for the
\* ticket with exactly the requested volume, and never more than one.
C17_PartialClose ==
    \A t \in Threads :
        PartialFound(t) =>
            LET live == ven[t].positions_get.items[1]
                volume == req[t].volume
            IN  /\ volume >= live.volume =>
                       /\ sends[t] = <<>>
                       /\ resp[t].code = 400
                       /\ resp[t].error_type = "validation_error"
                       /\ resp[t].error =
                            "Volume to close must be less than position volume. Use /close_position"
                /\ (volume > 0 /\ volume < live.volume) =>
                       /\ Len(sends[t]) <= 1
                       /\ (ven[t].tick.got = "value" /\ req[t].type \in {0, 1}) =>
                              Len(sends[t]) = 1
                       /\ \A i \in 1..Len(sends[t]) :
                              /\ sends[t][i].action = TRADE_ACTION_DEAL
                              /\ sends[t][i].position = live.ticket
                              /\ sends[t][i].volume = volume

\* Half of a live position of 200 closed: one deal of 100 sent and done.
C17_Witness ==
    /\ PartialFound(1)
    /\ ven[1].positions_get.items[1].volume = 200
    /\ req[1].volume = 100
    /\ Len(sends[1]) = 1
    /\ sends[1][1].volume = 100
    /\ resp[1].code = 200

\* The whole volume of the live position asked for: refused, nothing sent.
C17_WitnessWhole ==
    /\ PartialFound(1)
    /\ req[1].volume = ven[1].positions_get.items[1].volume
    /\ sends[1] = <<>>
    /\ resp[1].code = 400

\* ---- C18
\* Thread t's POST /close_all_positions has ended after it listed the open
\* positions and filtered them by a direction it knows.
CloseAllListed(t) ==
    /\ op[t] = "close_all"
    /\ pc[t] = "done"
    /\ body[t]
    /\ ven[t].positions_get.got = "value"
    /\ Get(req[t].order_type, "all") \in {"all", "BUY", "SELL"}

\* The closures of thread t's request that the venue has done.
ClosuresDone(t) ==
    {i \in 1..Len(ven[t].closes) :
       /\ ven[t].closes[i].order_send.got = "value"
       /\ ven[t].closes[i].order_send.retcode = TRADE_RETCODE_DONE}

\* C18: close all positions calls close_position() exactly once for every
\* listed position that passes the direction and magic filters, whatever
\* happened to the closures before it, and the results it reports are as
\* many as the closures that succeeded.
C18_EveryEligibleAttempted ==
    \A t \in Threads :
        CloseAllListed(t) =>
            /\ Len(ven[t].closes) = Len(EligibleRows(t))
            /\ Len(results[t]) = Cardinality(ClosuresDone(t))

\* The same with no closure raising: every eligible position is attempted
\* and the results are as many as the closures done.
C18_AttemptedUnlessRaised ==
    \A t \in Threads :
        (CloseAllListed(t)
           /\ EligibleRows(t) # <<>>
           /\ \A i \in 1..Len(ven[t].closes) :
                  ven[t].closes[i].order_send.got # "raise") =>
            /\ Len(ven[t].closes) = Len(EligibleRows(t))
            /\ Len(results[t]) = Cardinality(ClosuresDone(t))
            /\ resp[t].code = 200

\* Two eligible positions, order_send() raising in the closure of the
\* first: the request ends with 500 and the second was never attempted.
C18_RaiseAbortsBatch ==
    /\ CloseAllListed(1)
    /\ Len(EligibleRows(1)) = 2
    /\ Len(ven[1].closes) = 1
    /\ ven[1].closes[1].order_send.got = "raise"
    /\ resp[1].code = 500

\* ---- C19
\* The action a cancel or a modify request submits.
ActionOf(o) ==
    IF o = "cancel_order" THEN TRADE_ACTION_REMOVE ELSE TRADE_ACTION_MODIFY

\* C19: cancel_order and modify_order read the order again by its ticket
\* with orders_get(ticket=ticket) before they act: when that read finds no
\* order the response is 404 not_found and no order_send() is made; every
\* order_send() they make is a Remove (cancel) or a Modify (modify) for the
\* ticket of the request, and that ticket is one the read found.
C19_ResolvedBeforeActing ==
    \A t \in Threads :
        (op[t] \in {"cancel_order", "modify_order"} /\ body[t]) =>
            /\ (ven[t].orders_get.got = "value"
                  /\ Len(ven[t].orders_get.items) = 0) =>
                   /\ sends[t] = <<>>
                   /\ resp[t].code = 404
                   /\ resp[t].error_type = "not_found"
            /\ \A i \in 1..Len(sends[t]) :
                   /\ sends[t][i].action = ActionOf(op[t])
                   /\ sends[t][i].order = req[t].ticket
                   /\ ven[t].orders_get.got = "value"
                   /\ \E k \in 1..Len(ven[t].orders_get.items) :
                          ven[t].orders_get.items[k].ticket = sends[t][i].order

\* A cancel of a ticket that orders_get() did not find: 404, nothing sent.
C19_Witness ==
    /\ op[1] = "cancel_order"
    /\ pc[1] = "done"
    /\ ven[1].orders_get = Rows(<<>>)
    /\ resp[1].code = 404
    /\ sends[1] = <<>>

\* A modify of a ticket that orders_get() found: one Modify sent for it.
C19_WitnessModify ==
    /\ op[1] = "modify_order"
    /\ pc[1] = "done"
    /\ ven[1].orders_get.got = "value"
    /\ Len(sends[1]) = 1
    /\ sends[1][1].action = TRADE_ACTION_MODIFY
    /\ resp[1].code = 200

\* ---- C20
\* The values of error_type.
ErrorTypes == {"validation_error", "mt5_rejected", "connection_error", "not_found"}

\* Thread t's guarded operation has a JSON error envelope for its response.
\* The verdict of POST /order_check on an order that is not feasible (400,
\* a body of valid, retcode and comment) is a result, not an envelope.
ErrorEnvelope(t) ==
    /\ op[t] \in GuardedOps
    /\ resp[t].code >= 400
    /\ resp[t] # InvalidViewReturn
    /\ ~(op[t] = "order_check" /\ resp[t].retcode # <<>>)

\* C20: every JSON error envelope (validation failure, venue rejection,
\* the guard's 503, not found, internal error) has an error field and an
\* error_type field, one of validation_error, mt5_rejected,
\* connection_error, not_found.
C20_ErrorEnvelopeTyped ==
    \A t \in Threads :
        ErrorEnvelope(t) =>
            /\ resp[t].error # "absent"
            /\ resp[t].error_type \in ErrorTypes

\* The envelopes the handlers build for 400, 404 and 503 have both fields.
C20_HandlerEnvelopesTyped ==
    \A t \in Threads :
        (ErrorEnvelope(t) /\ body[t] /\ resp[t].code # 500) =>
            /\ resp[t].error # "absent"
            /\ resp[t].error_type \in ErrorTypes

\* The guard's 503: an error field and no error_type.
C20_GuardEnvelope ==
    /\ op[1] \in GuardedOps
    /\ ~body[1]
    /\ resp[1].code = 503
    /\ resp[1].error = "MT5 unavailable"
    /\ resp[1].error_type = "absent"

\* An internal error's 500: an error field and no error_type.
C20_InternalEnvelope ==
    /\ op[1] \in GuardedOps
    /\ body[1]
    /\ resp[1] = internal_error_response("order")
    /\ resp[1].error_type = "absent"

\* ---- C21
\* C21: under any interleaving of get_instance() calls from several
\* threads, MT5Connection is constructed at most once and every caller is
\* returned the same object, the one stored in _instance.
C21_OneInstance ==
    /\ built <= 1
    /\ \A c \in Callers : got[c] # 0 => got[c] = 1 /\ instance = 1

\* A caller that saw _instance None outside the lock holds the lock and is
\* at the second read, while another caller has already stored the object
\* and been returned it.
C21_Witness ==
    /\ built = 1
    /\ instance = 1
    /\ \E c, d \in Callers :
           /\ ipc[c] = "locked_check"
           /\ lock = c
           /\ got[d] = 1

\* ---- C22
\* Thread t's ensure_connection() or initialize() has returned.
Returned(t) ==
    /\ pc[t] \in {"guard", "body", "done"}
    /\ ret[t] # "unset"

\* No thread is inside ensure_connection() or initialize().
NoneInside == \A t \in Threads : pc[t] \in {"idle", "guard", "body", "done"}

\* C22: with the venue up, or down, for the whole time, every concurrent
\* ensure_connection()/initialize() returns what it returns when run alone
\* (True when up, False when down), and once no call is running the state
\* is the one a single call leaves: Connected with no error, or Disconnected
\* with the final diagnostic.
C22_ConcurrentCallsAsAlone ==
    /\ \A t \in Threads :
           Returned(t) => ret[t] = IF venue = "up" THEN "true" ELSE "false"
    /\ (NoneInside /\ \E t \in Threads : Returned(t)) =>
           IF venue = "up"
             THEN status = CONNECTED /\ last_error = NoError
             ELSE /\ status = DISCONNECTED
                  /\ last_error = FinalErrorMsg(max_reconnect_attempts)

\* Two calls against a venue that is down, both returned False, after one
\* of them wrote Reconnecting while the other was between the two
\* assignments of its last _set_status.
C22_Witness ==
    /\ venue = "down"
    /\ Returned(1) /\ Returned(2)
    /\ ret[1] = "false" /\ ret[2] = "false"
    /\ status = DISCONNECTED
    /\ last_error = FinalErrorMsg(max_reconnect_attempts)

\* A call is between the two assignments of its last _set_status while the
\* other call has written Reconnecting over its Disconnected.
C22_WitnessRace ==
    /\ venue = "down"
    /\ pc[1] = "set_error"
    /\ pend[1] = FinalErrorMsg(max_reconnect_attempts)
    /\ status = RECONNECTING

\* ---- C23
\* ensure_connection() of a manager that is not Connected goes to
\* initialize() without the account_info() probe.
C23_StraightToInitialize ==
    \A t \in Threads :
        (pc[t] = "ec_check" /\ status # CONNECTED /\ pc'[t] # "ec_check") =>
            pc'[t] = "init_loop"

\* Thread t's ensure_connection() has returned True with the manager
\* Connected.
Healed(t) ==
    /\ pc[t] = "guard"
    /\ ret[t] = "true"
    /\ status = CONNECTED

\* C23: no state is terminal.  From every state the manager rests in
\* (never used, Disconnected after the last attempt failed, Connected), an
\* ensure_connection() made while the venue accepts logins ends with True
\* and the status Connected, by the caller's own steps alone; and when the
\* status is not Connected it goes straight to initialize(), with no probe.
C23_SelfHealing ==
    /\ [][C23_StraightToInitialize]_vars
    /\ \A t \in Threads :
           (venue = "up" /\ pc[t] = "ec_check") ~> Healed(t)

\* A call that found the manager not Connected, made one login attempt
\* and returned True with the status Connected.
C23_Witness ==
    /\ venue = "up"
    /\ Healed(1)
    /\ attempt[1] = 1
    /\ last_error = NoError

\* ---- C24
\* Thread t is making login attempt k > 1 of initialize(): from the
\* assignment of RECONNECTING to the end of the attempt's try block.
InLaterAttempt(t) ==
    \/ pc[t] = "set_error" /\ cont[t] = "init_login"
    \/ pc[t] = "init_login" /\ attempt[t] > 1

\* C24: with one caller the status is Reconnecting exactly while a login
\* attempt k > 1 is being made; at the login call of attempt k > 1 the last
\* error names attempt k of max_reconnect_attempts; attempt 1 is made with
\* the status not Reconnecting; no operation ends with the status
\* Reconnecting.
C24_ReconnectingWhileRetrying ==
    /\ status = RECONNECTING <=> InLaterAttempt(1)
    /\ (pc[1] = "init_login" /\ attempt[1] > 1) =>
           last_error = ReconnectingMsg(attempt[1], max_reconnect_attempts)
    /\ (pc[1] = "init_login" /\ attempt[1] = 1) => status # RECONNECTING
    /\ pc[1] \in {"idle", "guard", "body", "done"} => status # RECONNECTING

\* The login call of the third attempt of three: Reconnecting, attempt 3/3.
C24_Witness ==
    /\ pc[1] = "init_login"
    /\ attempt[1] = 3
    /\ status = RECONNECTING
    /\ last_error = ReconnectingMsg(3, 3)

\* ---- C25
\* The venue raised in the login attempt att: in mt5.initialize(), in
\* mt5.account_info() or in mt5.last_error().
RaisedIn(att) ==
    \/ att.handshake = "raise"
    \/ att.account_info = "raise"
    \/ att.last_error = "raise"

\* The step of a login attempt in which the venue raises: Disconnected,
\* the exception's text for the diagnostic to be stored, the backoff next;
\* nothing is returned and no response is made.
C25_RaisedStep ==
    \A t \in Threads :
        (pc[t] = "init_login" /\ RaisedIn(last_att'[t])) =>
            /\ status' = DISCONNECTED
            /\ pc'[t] = "set_error"
            /\ pend'[t] = InitExceptionMsg
            /\ cont'[t] = "init_backoff"
            /\ ret'[t] = ret[t]
            /\ resp'[t] = resp[t]

\* After an attempt in which the venue raised: the diagnostic is the
\* exception's text until the next attempt, and an initialize() that
\* returns after it has made every attempt and every wait and returns
\* False.
C25_RaisedState ==
    \A t \in Threads :
        /\ (pc[t] = "init_backoff" /\ RaisedIn(last_att[t])) =>
               /\ status = DISCONNECTED
               /\ last_error = InitExceptionMsg
        /\ (InitializeReturned(t) /\ RaisedIn(last_att[t])) =>
               /\ ret[t] = "false"
               /\ logins[t] = max_reconnect_attempts
               /\ Len(sleeps[t]) = max_reconnect_attempts - 1

\* C25: an exception of the venue in a login attempt (handshake, account
\* info, last-error read) fails that attempt only: the status becomes
\* Disconnected with the exception's text as diagnostic, the remaining
\* attempts and waits are made, and initialize()/ensure_connection() return
\* a value instead of raising.
C25_ExceptionFailsAttemptOnly == []C25_RaisedState /\ [][C25_RaisedStep]_vars

\* mt5.last_error() raised in the first of three attempts, and the second
\* attempt is under way.
C25_Witness ==
    /\ pc[1] = "init_login"
    /\ attempt[1] = 2
    /\ last_att[1].last_error = "raise"
    /\ sleeps[1] # <<>>

\* ---- C26
\* The seconds slept in all of the waits ds.
RECURSIVE TotalDelay(_)
TotalDelay(ds) == IF ds = <<>> THEN 0 ELSE Head(ds) + TotalDelay(Tail(ds))

\* At every moment of an operation: no more logins than
\* max_reconnect_attempts, no more waits than max_reconnect_attempts - 1,
\* and no more seconds waited than base_delay * (2^(max-1) - 1).
C26_Bounded ==
    \A t \in Threads :
        /\ logins[t] <= max_reconnect_attempts
        /\ Len(sleeps[t]) <= max_reconnect_attempts - 1
        /\ TotalDelay(sleeps[t]) <=
               base_delay * (2 ^ (max_reconnect_attempts - 1) - 1)

\* C26: every initialize() and every ensure_connection() returns, after at
\* most max_reconnect_attempts login attempts and max_reconnect_attempts - 1
\* waits, whatever the venue answers (failure, None, exception) in each
\* attempt.
C26_Terminates ==
    /\ []C26_Bounded
    /\ \A t \in Threads :
           pc[t] \in {"ec_check", "init_loop"} ~>
               (pc[t] \in {"guard", "done"} /\ ret[t] # "unset")

\* An ensure_connection() that returned False after three logins, the last
\* one raising, and two waits.
C26_Witness ==
    /\ pc[1] = "guard"
    /\ ret[1] = "false"
    /\ logins[1] = 3
    /\ Len(sleeps[1]) = 2
    /\ RaisedIn(last_att[1])

\* ---- C27
\* C27: the request POST /order submits has the filling mode
\* get_symbol_filling_mode gives for the symbol's bitmask; a type_filling
\* of the caller replaces it for a market order (BUY, SELL) and has no
\* effect for a pending order.
C27_FillingFromSymbol ==
    \A t \in Threads :
        (op[t] = "order" /\ sends[t] # <<>>) =>
            LET d == req[t]
                submitted == sends[t][1].type_filling
            IN  IF IsMarketRequest(d) /\ Present(d.type_filling)
                  THEN submitted = Value(d.type_filling)
                  ELSE submitted = get_symbol_filling_mode(ven[t].volume_info)

\* A market order with no type_filling for a symbol that supports RETURN
\* alone: submitted with IOC.
C27_DefaultIsIOC ==
    /\ op[1] = "order"
    /\ sends[1] # <<>>
    /\ IsMarketRequest(req[1])
    /\ ~Present(req[1].type_filling)
    /\ ven[1].volume_info.filling_mode = 4
    /\ sends[1][1].type_filling = ORDER_FILLING_IOC

\* A pending order with type_filling FOK from the caller: submitted with
\* FOK.
C27_PendingOverridden ==
    /\ op[1] = "order"
    /\ sends[1] # <<>>
    /\ ~IsMarketRequest(req[1])
    /\ req[1].type_filling = Some(ORDER_FILLING_FOK)
    /\ sends[1][1].type_filling = ORDER_FILLING_FOK

\* ---- C28
\* Request d has its three required fields and the type of a pending
\* order.
IsPendingRequest(d) ==
    /\ ~d.empty
    /\ Present(d.symbol) /\ Present(d.volume) /\ Present(d.type)
    /\ Upper(Value(d.type)) \in {"BUY_LIMIT", "SELL_LIMIT", "BUY_STOP", "SELL_STOP"}

\* Request d has its three required fields and the type BUY or SELL.
IsMarketOrder(d) ==
    /\ ~d.empty
    /\ Present(d.symbol) /\ Present(d.volume) /\ Present(d.type)
    /\ IsMarketRequest(d)

\* C28: a BUY or SELL order is submitted as a TRADE_ACTION_DEAL at the
\* tick's ask (BUY) or bid (SELL); a price in the request changes neither
\* the submitted price nor the outcome: the order is submitted whenever the
\* checks of a market order, none of which reads the price, pass.  A
\* BUY_LIMIT, SELL_LIMIT, BUY_STOP or SELL_STOP order is submitted as a
\* TRADE_ACTION_PENDING at the price of the request, and without a price it
\* is a 400 validation_error with nothing submitted.
C28_MarketAndPendingPrice ==
    \A t \in Threads :
        (op[t] = "order" /\ body[t]) =>
            LET d == req[t]
            IN  /\ IsMarketOrder(d) =>
                       /\ OrderValidationsPass(d, ven[t]) => Len(sends[t]) = 1
                       /\ \A i \in 1..Len(sends[t]) :
                              /\ sends[t][i].action = TRADE_ACTION_DEAL
                              /\ sends[t][i].price =
                                    IF Upper(Value(d.type)) = "BUY"
                                      THEN ven[t].tick.ask ELSE ven[t].tick.bid
                /\ IsPendingRequest(d) =>
                       /\ \A i \in 1..Len(sends[t]) :
                              /\ sends[t][i].action = TRADE_ACTION_PENDING
                              /\ Present(d.price)
                              /\ sends[t][i].price = Value(d.price)
                       /\ (~Present(d.price) /\ ~d.malformed) =>
                              /\ sends[t] = <<>>
                              /\ resp[t].code = 400
                              /\ resp[t].error_type = "validation_error"

\* A BUY with a price of 8 in the request: submitted at the ask of 12 and
\* done.
C28_Witness ==
    /\ op[1] = "order"
    /\ pc[1] = "done"
    /\ req[1].type = Some("BUY")
    /\ req[1].price = Some(8)
    /\ Len(sends[1]) = 1
    /\ sends[1][1].price = 12
    /\ sends[1][1].action = TRADE_ACTION_DEAL
    /\ resp[1].code = 200

\* A BUY_LIMIT with no price: 400, nothing submitted.
C28_WitnessNoPrice ==
    /\ op[1] = "order"
    /\ pc[1] = "done"
    /\ req[1].type = Some("BUY_LIMIT")
    /\ ~Present(req[1].price)
    /\ resp[1].error = "Price required for pending orders"
    /\ sends[1] = <<>>

\* ---- C29
\* Thread t's POST /order found its symbol not selectable: symbol_select()
\* answered False.
SymbolRefused(t) ==
    /\ op[t] = "order"
    /\ body[t]
    /\ ven[t].symbol_select.got = "value"
    /\ ~ven[t].symbol_select.value

\* No step of POST /order after the symbol's has run for thread t.
NoLaterStep(t) ==
    /\ ven[t].volume_info.got = "uncalled"
    /\ ven[t].tick.got = "uncalled"
    /\ ven[t].price_info.got = "uncalled"
    /\ ven[t].order_send.got = "uncalled"
    /\ sends[t] = <<>>

\* C29: in POST /order a symbol that does not exist or cannot be selected
\* is answered with 404 and error_type not_found, and no later step of the
\* handler runs.
C29_UnknownSymbolNotFound ==
    \A t \in Threads :
        SymbolRefused(t) =>
            /\ resp[t].code = 404
            /\ resp[t].error_type = "not_found"
            /\ NoLaterStep(t)

\* What the handler does: 400 validation_error, and no later step.
C29_UnknownSymbolIsValidationError ==
    \A t \in Threads :
        SymbolRefused(t) =>
            /\ resp[t].code = 400
            /\ resp[t].error_type = "validation_error"
            /\ NoLaterStep(t)

\* A request for a symbol that symbol_select() refused, answered.
C29_SymbolRefusedReached ==
    /\ SymbolRefused(1)
    /\ pc[1] = "done"
    /\ resp[1].error = "Symbol not found or not selectable"

\* ---- C30
\* The write operations that call order_send() themselves.
SubmittingOps == {"order", "cancel_order", "modify_order", "close_partial", "modify_sl_tp"}

\* Thread t's write operation has ended and its order_send() returned None.
NullSubmission(t) ==
    /\ op[t] \in SubmittingOps
    /\ pc[t] = "done"
    /\ ven[t].order_send = None

\* C30: an order_send() that returns None is answered with a 400
\* validation_error by every write operation (send, cancel, modify, partial
\* close, modify SL/TP), never with a success, and the request is not
\* submitted again.
C30_NullIsValidationError ==
    \A t \in Threads :
        NullSubmission(t) =>
            /\ resp[t].code = 400
            /\ resp[t].error_type = "validation_error"
            /\ Len(sends[t]) = 1

\* What holds for every write operation: never a success, one submission.
C30_NullNeverSuccess ==
    \A t \in Threads :
        NullSubmission(t) =>
            /\ resp[t].code \in {400, 500}
            /\ Len(sends[t]) = 1
            /\ op[t] \in {"order", "modify_sl_tp"} <=> resp[t].code = 400

\* The step of a handler changes neither the connection status nor the
\* last error, and it is the last step of the request but for the loop of
\* close all: no login follows it.
C30_HandlerLeavesConnection ==
    [][\A t \in Threads :
          (pc[t] = "body" /\ pc'[t] # "body") =>
              /\ UNCHANGED <<status, last_error>>
              /\ pc'[t] \in {"done", "close_all_loop"}]_vars

\* A cancel whose order_send() returned None: answered with 500.
C30_NullIsServerError ==
    /\ op[1] = "cancel_order"
    /\ NullSubmission(1)
    /\ resp[1] = InvalidViewReturn

\* ---- C31
\* The order close_position() builds from the reads c of one call that got
\* as far as mt5.order_send(): made of the position read by ticket, the
\* tick and the symbol's filling modes only.
ClosingOrder(c) ==
    LET live == c.positions_get.items[1]
    IN  [action |-> TRADE_ACTION_DEAL, position |-> live.ticket,
         symbol |-> live.symbol, volume |-> live.volume,
         type |-> IF live.type = 0 THEN ORDER_TYPE_SELL ELSE ORDER_TYPE_BUY,
         price |-> IF live.type = 0 THEN c.tick.bid ELSE c.tick.ask,
         deviation |-> 20, magic |-> live.magic,
         type_filling |-> get_symbol_filling_mode(c.filling_info)]

\* The reads c of a close_position() call found no position for the ticket.
TicketGone(c) ==
    \/ c.positions_get.got # "value"
    \/ Len(c.positions_get.items) = 0

\* The reads c of a close_position() call all succeeded: the position is a
\* BUY or a SELL position, its symbol is selectable and its side of the tick
\* has a price.
CloseReadsSucceeded(c) ==
    /\ ~TicketGone(c)
    /\ c.positions_get.items[1].type \in {0, 1}
    /\ c.symbol_select.got = "value" /\ c.symbol_select.value
    /\ c.tick.got = "value"
    /\ (IF c.positions_get.items[1].type = 0 THEN c.tick.bid ELSE c.tick.ask) # 0

\* C31: close_position() submits nothing when the ticket is not found at
\* the venue; it submits once when its reads succeed; and whatever it
\* submits is one DEAL on the live position's symbol and full volume, in the
\* opposite direction, at bid for a BUY and ask for a SELL position, with
\* the filling mode of get_symbol_filling_mode: no field of the caller's
\* position dictionary but the ticket is in the request.
C31_CloseFromLivePosition ==
    \A t \in Threads :
        (op[t] = "close_position" /\ pc[t] = "done") =>
            /\ Len(ven[t].closes) <= 1
            /\ Len(sends[t]) <= Len(ven[t].closes)
            /\ \A i \in 1..Len(ven[t].closes) :
                 LET c == ven[t].closes[i]
                 IN  /\ TicketGone(c) => sends[t] = <<>>
                     /\ CloseReadsSucceeded(c) <=> sends[t] # <<>>
                     /\ sends[t] # <<>> => sends[t] = <<ClosingOrder(c)>>

\* A long position of 200 with magic 7 closed by a body that names the
\* ticket with another symbol, side, volume and magic: one SELL of 200 at bid.
C31_Witness ==
    /\ op[1] = "close_position" /\ pc[1] = "done"
    /\ req[1].position = Some([ticket |-> Some(1), symbol |-> "GBPUSD", type |-> 1,
                                volume |-> 100, magic |-> 3])
    /\ Len(sends[1]) = 1
    /\ sends[1][1].symbol = "EURUSD" /\ sends[1][1].volume = 200
    /\ sends[1][1].type = ORDER_TYPE_SELL /\ sends[1][1].price = 10
    /\ sends[1][1].magic = 7
    /\ resp[1].code = 200

\* The ticket is gone: nothing submitted, answered 400.
C31_WitnessGone ==
    /\ op[1] = "close_position" /\ pc[1] = "done"
    /\ Len(ven[1].closes) = 1
    /\ ven[1].closes[1].positions_get = Rows(<<>>)
    /\ sends[1] = <<>>
    /\ resp[1].code = 400

\* ---- C32
\* Thread t's partial close gave a request to mt5.order_send().
PartialSubmitted(t) ==
    /\ op[t] = "close_partial"
    /\ pc[t] = "done"
    /\ sends[t] # <<>>

\* The order close_position() would build from the reads of thread t's
\* partial close: the position read by ticket, the tick, the filling modes.
CloseOfSameReads(t) ==
    ClosingOrder([NoClose EXCEPT !.positions_get = ven[t].positions_get,
                                 !.symbol_select = ven[t].symbol_select,
                                 !.tick = ven[t].tick,
                                 !.filling_info = ven[t].filling_info])

\* C32: the request of a partial close is the request close_position()
\* builds for the same live position but for its volume: the direction
\* opposite to the live position's, the live position's symbol, bid for a
\* BUY and ask for a SELL position.
C32_PartialAsCloseButVolume ==
    \A t \in Threads :
        PartialSubmitted(t) =>
            /\ Len(sends[t]) = 1
            /\ sends[t][1] = [CloseOfSameReads(t) EXCEPT !.volume = req[t].volume]

\* What the handler does: direction and price side follow the type of the
\* request body, the symbol is the body's, whatever the live position is.
C32_PartialFromRequest ==
    \A t \in Threads :
        PartialSubmitted(t) =>
            /\ Len(sends[t]) = 1
            /\ sends[t][1].symbol = req[t].symbol
            /\ sends[t][1].volume = req[t].volume
            /\ sends[t][1].type =
                 (IF req[t].type = 0 THEN ORDER_TYPE_SELL ELSE ORDER_TYPE_BUY)
            /\ sends[t][1].price =
                 (IF req[t].type = 0 THEN ven[t].tick.bid ELSE ven[t].tick.ask)

\* A BUY position of 200 and a body of type 1 (SELL) for 100: the handler
\* submits a BUY at ask, where close_position() submits a SELL at bid.
C32_WrongSideSubmitted ==
    /\ PartialSubmitted(1)
    /\ ven[1].positions_get = Rows(<<Position(1, 0, 200, 0)>>)
    /\ req[1].type = 1
    /\ sends[1][1].type = ORDER_TYPE_BUY
    /\ sends[1][1].price = 12
    /\ sends[1][1].volume = 100
    /\ resp[1].code = 200

\* ---- C33
\* Thread t's modify_order gave a request to mt5.order_send().
ModifySubmitted(t) ==
    /\ op[t] = "modify_order"
    /\ pc[t] = "done"
    /\ sends[t] # <<>>

\* The order thread t's modify_order found, and the effective values: the
\* body's, or the order's own where the body has none.
LiveOrder(t) == ven[t].orders_get.items[1]
EffectivePrice(t) == Get(req[t].price, LiveOrder(t).price_open)
EffectiveSl(t) == Get(req[t].sl, LiveOrder(t).sl)
EffectiveTp(t) == Get(req[t].tp, LiveOrder(t).tp)

\* validate_pending_price was run on the effective price and passed.
EffectivePriceValidated(t) ==
    /\ ven[t].tick.got = "value"
    /\ ven[t].price_info.got = "value"
    /\ validate_pending_price(LiveOrder(t).type, ven[t].tick, ven[t].price_info,
                              EffectivePrice(t)).valid

\* validate_sl_tp passes for the effective stops against the effective
\* price, 0 standing for no stop.
EffectiveStopsValid(t) ==
    validate_sl_tp(LiveOrder(t).type, EffectivePrice(t),
                   IF EffectiveSl(t) > 0 THEN Some(EffectiveSl(t)) ELSE Absent,
                   IF EffectiveTp(t) > 0 THEN Some(EffectiveTp(t)) ELSE Absent).valid

\* C33: modify_order submits its MODIFY request only after the effective
\* price has passed validate_pending_price and the effective sl/tp have
\* passed validate_sl_tp against the effective price; a failure of either
\* is a 400 validation_error with nothing submitted.
C33_ModifyRevalidates ==
    \A t \in Threads :
        ModifySubmitted(t) =>
            /\ sends[t][1].action = TRADE_ACTION_MODIFY
            /\ EffectivePriceValidated(t)
            /\ EffectiveStopsValid(t)

\* What the handler does: the price is validated when the body supplies
\* one, the stops always; a failed validation is a 400 with no submission.
C33_SuppliedPriceValidated ==
    \A t \in Threads :
        /\ ModifySubmitted(t) =>
            /\ sends[t][1].action = TRADE_ACTION_MODIFY
            /\ Present(req[t].price) <=> ven[t].tick # Uncalled
            /\ Present(req[t].price) => EffectivePriceValidated(t)
            /\ EffectiveStopsValid(t)
            /\ EffectivePrice(t) > 0 /\ EffectiveSl(t) >= 0 /\ EffectiveTp(t) >= 0
        /\ (op[t] = "modify_order" /\ pc[t] = "done" /\ sends[t] = <<>>
              /\ ven[t].orders_get.got = "value" /\ Len(ven[t].orders_get.items) = 1) =>
               /\ resp[t].code = 400
               /\ resp[t].error_type = "validation_error"

\* A body with a stop loss only for a BUY_LIMIT order at 8: submitted with
\* the order's price, no tick and no symbol info read.
C33_UnvalidatedPriceSubmitted ==
    /\ ModifySubmitted(1)
    /\ req[1].price = Absent /\ req[1].sl = Some(6) /\ req[1].tp = Absent
    /\ LiveOrder(1) = Order(1, ORDER_TYPE_BUY_LIMIT, 8, 0, 0)
    /\ ven[1].tick = Uncalled /\ ven[1].price_info = Uncalled
    /\ sends[1][1].price = 8 /\ sends[1][1].sl = 6
    /\ resp[1].code = 200

\* ---- C34
\* The call sites of a handler whose venue call may raise, as fields of ven.
VenueCalls ==
    {"account_info", "symbol_select", "volume_info", "tick", "price_info",
     "filling_info", "orders_get", "positions_total", "positions_get",
     "order_send", "order_check", "order_calc", "last_error"}

\* A venue call of thread t's handler raised: one of its own, or the
\* mt5.order_send() of one of its close_position() calls.
VenueRaised(t) ==
    \/ \E f \in VenueCalls : ven[t][f].got = "raise"
    \/ \E i \in 1..Len(ven[t].closes) : ven[t].closes[i].order_send.got = "raise"

\* float(data["volume"]) of POST /order raised ValueError: the volume is not
\* a number, in a body whose symbol and type passed.
ConversionRaised(t) ==
    /\ op[t] = "order"
    /\ req[t].kind = "order"
    /\ ~req[t].empty
    /\ req[t].malformed
    /\ ven[t].symbol_select.got = "value" /\ ven[t].symbol_select.value
    /\ Present(req[t].type) /\ Upper(Value(req[t].type)) \in DOMAIN ORDER_TYPE_MAP

\* An exception was raised while thread t's handler ran.
HandlerRaised(t) == body[t] /\ (VenueRaised(t) \/ ConversionRaised(t))

\* The state part of C34: a handler in which an exception was raised has
\* answered with the 500 of internal_error_response, and whatever it had
\* submitted before stays as it was: nothing is submitted after the raise.
C34_RaisedState ==
    \A t \in Threads :
        (pc[t] = "done" /\ HandlerRaised(t)) =>
            /\ resp[t] = internal_error_response(op[t])
            /\ resp[t].code = 500
            /\ ven[t].order_send.got = "raise" => Len(sends[t]) = 1
            /\ (ven[t].tick.got = "raise" \/ ConversionRaised(t)) => sends[t] = <<>>

\* The step part of C34: the step in which the exception is raised ends
\* the request and changes neither the status nor the last error.
C34_RaisedStep ==
    \A t \in Threads :
        (pc[t] \in {"body", "close_all_loop"} /\ pc'[t] # pc[t] /\ HandlerRaised(t)') =>
            /\ pc'[t] = "done"
            /\ UNCHANGED <<status, last_error>>

\* C34: an exception raised while a handler runs (a venue call that raises
\* in a pipeline or in a close-all batch, a conversion that fails) is
\* answered with internal_error_response, HTTP 500, and leaves the
\* connection status and the last error as they were.
C34_ExceptionIsInternalError == []C34_RaisedState /\ [][C34_RaisedStep]_vars

\* mt5.symbol_info_tick() raised in POST /order after the symbol, the type
\* and the volume had passed: 500, nothing submitted, still connected.
C34_Witness ==
    /\ op[1] = "order" /\ pc[1] = "done"
    /\ ven[1].tick = Raised
    /\ ven[1].volume_info.got = "value"
    /\ sends[1] = <<>>
    /\ resp[1] = internal_error_response("send_order")
    /\ status = CONNECTED

\* mt5.order_send() raised for the second position of a close-all batch,
\* after the first was closed: 500.
C34_WitnessBatch ==
    /\ op[1] = "close_all" /\ pc[1] = "done"
    /\ Len(ven[1].closes) = 2
    /\ ven[1].closes[1].order_send = OrderResult(TRADE_RETCODE_DONE)
    /\ ven[1].closes[2].order_send = Raised
    /\ Len(sends[1]) = 2
    /\ resp[1].code = 500
    /\ status = CONNECTED

\* ---- C35
\* The dry-run, calculation and query operations.
ReadOnlyOps ==
    {"order_check", "order_calc_margin", "order_calc_profit", "orders",
     "positions_total", "account"}

\* C35: POST /order_check, /order_calc_margin, /order_calc_profit and the
\* queries never call mt5.order_send(), on any path: from the start of such
\* a request to its end no request is submitted, by the handler or by a
\* close_position() call, whatever the body and the venue's answers are.
C35_ReadOnlyNeverSubmits ==
    \A t \in Threads :
        op[t] \in ReadOnlyOps =>
            /\ sends[t] = <<>>
            /\ ven[t].order_send = Uncalled
            /\ ven[t].closes = <<>>

\* An order check that passed every validation and that the venue found
\* feasible: answered 200 with mt5.order_check() called and nothing
\* submitted.
C35_Witness ==
    /\ op[1] = "order_check" /\ pc[1] = "done"
    /\ ven[1].order_check = OrderResult(TRADE_RETCODE_DONE)
    /\ resp[1] = Success("valid")
    /\ sends[1] = <<>>

\* A margin calculation answered with an amount.
C35_WitnessMargin ==
    /\ op[1] = "order_calc_margin" /\ pc[1] = "done"
    /\ ven[1].order_calc = [got |-> "value", value |-> 5]
    /\ resp[1] = Success("margin")
    /\ sends[1] = <<>>

\* ---- C36
\* The operations that only read the connection: the health endpoints,
\* made of conn.is_connected(), conn.get_status() and conn.get_last_error().
HealthOps == {"ready", "health", "live"}

\* The step part of C36: a step of a health endpoint changes neither the
\* status nor the last error, and makes no login, logout or wait.
C36_HealthStep ==
    \A t \in Threads :
        (op[t] \in HealthOps /\ pc'[t] # pc[t]) =>
            /\ UNCHANGED <<status, last_error>>
            /\ UNCHANGED <<logins, logouts, sleeps>>
            /\ pc'[t] \in {"ready_body", "health_account", "done", "idle"}

\* The state part of C36: a health endpoint has made no login, and what
\* /health/ready and /health answer is the status as it is: 200 from
\* /health/ready exactly when CONNECTED, mt5_status the current status.
C36_HealthState ==
    \A t \in Threads :
        op[t] \in HealthOps =>
            /\ logins[t] = 0 /\ logouts[t] = <<>> /\ sleeps[t] = <<>>
            /\ (op[t] = "ready" /\ pc[t] = "done") =>
                   /\ resp[t].code = 200 <=> status = CONNECTED
                   /\ resp[t].mt5_status = status
            /\ (op[t] = "health" /\ pc[t] = "done") =>
                   /\ resp[t].code = 200
                   /\ resp[t].mt5_status = status
                   /\ ven[t].account_info # Uncalled <=> status = CONNECTED

\* C36: the accessors and the health endpoints (/health, /health/ready,
\* /health/live) leave the status and the last error unchanged and make no
\* login or reconnection attempt, so readiness reports the state the last
\* initialize, ensure_connection or shutdown left.
C36_HealthEndpointsPure == []C36_HealthState /\ [][C36_HealthStep]_vars

\* GET /health while connected with mt5.account_info() answering None: the
\* response is 200 and the connection is still CONNECTED with no error.
C36_Witness ==
    /\ op[1] = "health" /\ pc[1] = "done"
    /\ ven[1].account_info = [got |-> "empty"]
    /\ status = CONNECTED /\ last_error = NoError
    /\ resp[1].code = 200

\* GET /health/ready after the retries were exhausted: 503, the final
\* error still in place.
C36_WitnessNotReady ==
    /\ op[1] = "ready" /\ pc[1] = "done"
    /\ status = DISCONNECTED
    /\ last_error = FinalErrorMsg(max_reconnect_attempts)
    /\ resp[1].code = 503

\* ---- C37
\* Thread t's initialize() or ensure_connection() returns in this step: the
\* end of the last _set_status of initialize(), or the probe that succeeds.
ReturnsNow(t) ==
    /\ op[t] # "shutdown"
    /\ pc[t] \in {"set_error", "ec_probe"}
    /\ pc'[t] \in {"guard", "done"}
    /\ ret'[t] # "unset"

\* C37: when initialize() or ensure_connection() returns, the value it
\* returns agrees with the shared status: True with CONNECTED, False with
\* DISCONNECTED, other threads' ensure_connection() calls interleaving.
C37_ReturnStep ==
    \A t \in Threads :
        ReturnsNow(t) =>
            /\ ret'[t] = "true" => status' = CONNECTED
            /\ ret'[t] = "false" => status' = DISCONNECTED
C37_ReturnAgreesWithStatus == [][C37_ReturnStep]_vars

\* With the venue down, thread 1's call has returned False to the guard
\* while thread 2's call, in its second attempt, has set RECONNECTING.
C37_FalseWhileReconnecting ==
    /\ venue = "down"
    /\ pc[1] = "guard" /\ ret[1] = "false"
    /\ pc[2] = "init_login" /\ attempt[2] = 2
    /\ status = RECONNECTING

\* Thread 1's probe succeeded and its ensure_connection() has returned True
\* while thread 2, whose probe failed, has set DISCONNECTED.
C37_TrueWhileDisconnected ==
    /\ pc[1] = "guard" /\ ret[1] = "true"
    /\ pc[2] = "set_error" /\ cont[2] = "init_loop"
    /\ status = DISCONNECTED

\* ---- C38
\* No thread is between the two assignments of _set_status.
NoWriteInProgress == \A t \in Threads : pc[t] # "set_error"

\* C38: whenever the status is CONNECTED the last error is empty, in every
\* state in which no _set_status is half done, for every interleaving of
\* initialize, ensure_connection and shutdown of two threads.
C38_ConnectedMeansNoError ==
    (NoWriteInProgress /\ status = CONNECTED) => last_error = NoError

\* Both threads' calls have returned: thread 1's login succeeded, thread
\* 2's failed, and the fields are CONNECTED with thread 2's diagnostic.
C38_ConnectedWithError ==
    /\ NoneInside
    /\ ret[1] = "true"
    /\ ret[2] = "false"
    /\ status = CONNECTED
    /\ last_error = FinalErrorMsg(max_reconnect_attempts)

\* ---- C39
\* Thread 2's shutdown() has returned.  Under SpecShutdown no call begins
\* after it, so every later step belongs to a call that was in flight.
ShutdownReturned == op[2] = "shutdown" /\ pc[2] = "done"

\* C39: once shutdown() has returned the status stays DISCONNECTED and no
\* venue login is made, as long as no caller starts a new initialize() or
\* ensure_connection(): a call that was in flight when shutdown ran neither
\* logs in again nor sets RECONNECTING or CONNECTED.
C39_AfterShutdownStep ==
    ShutdownReturned =>
        /\ status' = DISCONNECTED
        /\ ~(pc[1] = "init_login" /\ pc'[1] # "init_login")
C39_ShutdownIsFinal == [][C39_AfterShutdownStep]_vars

\* shutdown() has returned while initialize() waited in its backoff, and
\* initialize() has gone on: its next attempt logged in and set CONNECTED.
C39_ConnectedAfterShutdown ==
    /\ ShutdownReturned
    /\ op[1] = "initialize" /\ pc[1] = "done" /\ ret[1] = "true"
    /\ attempt[1] = 2
    /\ status = CONNECTED

\* ---- C40
\* Thread t's modify_order has ended for a body with none of price, sl, tp.
NothingToModify(t) ==
    /\ op[t] = "modify_order"
    /\ pc[t] = "done"
    /\ body[t]
    /\ ~Present(req[t].price) /\ ~Present(req[t].sl) /\ ~Present(req[t].tp)

\* C40: the MODIFY request of modify_order carries, for each of price, sl
\* and tp, the body's value when the body has one and the live order's
\* current value when it has none; a body with none of the three is
\* answered 400 with no venue call and no submission.
C40_UnmentionedFieldsKept ==
    \A t \in Threads :
        /\ ModifySubmitted(t) =>
              /\ Len(sends[t]) = 1
              /\ sends[t][1].action = TRADE_ACTION_MODIFY
              /\ sends[t][1].order = req[t].ticket
              /\ sends[t][1].price =
                   (IF Present(req[t].price) THEN Value(req[t].price)
                                             ELSE LiveOrder(t).price_open)
              /\ sends[t][1].sl =
                   (IF Present(req[t].sl) THEN Value(req[t].sl) ELSE LiveOrder(t).sl)
              /\ sends[t][1].tp =
                   (IF Present(req[t].tp) THEN Value(req[t].tp) ELSE LiveOrder(t).tp)
        /\ NothingToModify(t) =>
              /\ resp[t].code = 400
              /\ resp[t].error_type = "validation_error"
              /\ ven[t] = NoVenue
              /\ sends[t] = <<>>

\* A body with a new price only for a SELL_STOP order at 8 with stop loss
\* 16 and take profit 6: the request carries the new price and both stops
\* of the order.
C40_Witness ==
    /\ ModifySubmitted(1)
    /\ req[1].price = Some(8) /\ req[1].sl = Absent /\ req[1].tp = Absent
    /\ LiveOrder(1) = Order(1, ORDER_TYPE_SELL_STOP, 8, 16, 6)
    /\ sends[1][1].price = 8 /\ sends[1][1].sl = 16 /\ sends[1][1].tp = 6
    /\ resp[1].code = 200

\* A body with a stop loss only: price and take profit are the order's.
C40_WitnessStopOnly ==
    /\ ModifySubmitted(1)
    /\ req[1].price = Absent /\ req[1].sl = Some(16) /\ req[1].tp = Absent
    /\ LiveOrder(1) = Order(1, ORDER_TYPE_SELL_STOP, 8, 16, 6)
    /\ sends[1][1].price = 8 /\ sends[1][1].sl = 16 /\ sends[1][1].tp = 6

\* A body with no field to modify: refused before any venue call.
C40_WitnessNothing ==
    /\ NothingToModify(1)
    /\ ~req[1].empty
    /\ resp[1] = validation_error_response(
                    "At least one of price, sl, or tp must be provided")

\* ---- C4
\* The state part and the step part of C4.
C4_ProbeOkState ==
    \A t \in Threads :
        (pc[t] = "guard" /\ probe[t] = "data") =>
            /\ ret[t] = "true"
            /\ logins[t] = 0
            /\ sleeps[t] = <<>>
            /\ status = CONNECTED

C4_ProbeOkStep ==
    \A t \in Threads :
        /\ (pc[t] = "ec_check" /\ is_connected) =>
              (pc'[t] = "ec_probe" /\ UNCHANGED <<status, last_error>>)
        /\ (pc[t] = "ec_probe" /\ probe'[t] = "data") =>
              /\ pc'[t] = "guard"
              /\ ret'[t] = "true"
              /\ logins'[t] = 0
              /\ UNCHANGED <<status, last_error>>

\* C4: ensure_connection() on a Connected manager whose liveness probe
\* returns data returns success, has made no login attempt and no wait, and
\* its steps leave the status and the last error as they were.
C4_ProbeOkNoReconnect == []C4_ProbeOkState /\ [][C4_ProbeOkStep]_vars

C4_Witness ==
    /\ pc[1] = "guard"
    /\ probe[1] = "data"
    /\ ret[1] = "true"
    /\ last_error = NoError

\* ---- C5
\* The state part and the step part of C5.
C5_ProbeFailedState ==
    \A t \in Threads :
        probe[t] \in {"empty", "raise"} =>
            /\ (pc[t] = "init_loop" /\ attempt[t] = 0) =>
                  /\ status = DISCONNECTED
                  /\ last_error = (IF probe[t] = "empty" THEN ConnectionLostMsg
                                                        ELSE ProbeExceptionMsg)
            /\ pc[t] \in {"guard", "body", "done"} =>
                  /\ logins[t] >= 1
                  /\ ret[t] \in {"true", "false"}
                  /\ ret[t] = "true" <=> last_att[t] = SuccessfulAttempt
                  /\ pc[t] = "body" => ret[t] = "true"

C5_ProbeFailedStep ==
    \A t \in Threads :
        (pc[t] = "ec_probe" /\ probe'[t] \in {"empty", "raise"}) =>
            /\ status' = DISCONNECTED
            /\ pc'[t] = "set_error"
            /\ cont'[t] = "init_loop"
            /\ attempt'[t] = 0
            /\ ret'[t] = "unset"
            /\ resp'[t] = NoResponse

\* C5: when the liveness probe of a Connected manager returns None or
\* raises, the status becomes Disconnected with a diagnostic before
\* initialize() starts, and what ensure_connection() hands to its caller is
\* initialize()'s value; the probe's exception never reaches the caller.
C5_ProbeFailureReinitializes == []C5_ProbeFailedState /\ [][C5_ProbeFailedStep]_vars

C5_Witness ==
    /\ pc[1] = "guard"
    /\ probe[1] = "raise"
    /\ ret[1] = "true"
    /\ logins[1] = 2

\* ---- C6
\* The state part and the step part of C6.
C6_SuccessState ==
    \A t \in Threads :
        /\ InitializeReturned(t) =>
              /\ ret[t] = "true" <=> last_att[t] = SuccessfulAttempt
              /\ ret[t] = "true" <=> status = CONNECTED
              /\ logins[t] <= max_reconnect_attempts
        /\ (RanInitialize(t) /\ last_att[t] = SuccessfulAttempt) => ret[t] = "true"
        /\ (RanInitialize(t) /\ last_att[t] # SuccessfulAttempt
              /\ pc[t] \in {"init_backoff", "init_loop", "init_login"}) => ret[t] = "unset"

C6_SuccessStep ==
    \A t \in Threads :
        /\ last_att[t] = SuccessfulAttempt => logins'[t] <= logins[t]
        /\ (pc[t] = "init_login" /\ last_att'[t] = SuccessfulAttempt) =>
              status' = CONNECTED

\* C6: initialize() returns success exactly when its last login attempt had
\* a successful handshake and a non-empty account_info (so a handshake with an
\* empty account_info is a failed attempt); it then has set the status to
\* Connected, within max_reconnect_attempts attempts, and makes no login
\* attempt after the successful one.
C6_SuccessIffHandshakeAndProbe == []C6_SuccessState /\ [][C6_SuccessStep]_vars

C6_Witness ==
    /\ InitializeReturned(1)
    /\ op[1] = "initialize"
    /\ ret[1] = "true"
    /\ logins[1] = 2
    /\ status = CONNECTED

\* ---- C7
\* C7: when initialize() returns failure it has made exactly
\* max_reconnect_attempts login attempts, none of them successful, and the
\* status is Disconnected with the final diagnostic, which names the number
\* of attempts, as the last error.
C7_ExhaustedAttempts ==
    \A t \in Threads :
        /\ (InitializeReturned(t) /\ ret[t] = "false") =>
              /\ logins[t] = max_reconnect_attempts
              /\ attempt[t] = max_reconnect_attempts
              /\ last_att[t] # SuccessfulAttempt
              /\ status = DISCONNECTED
              /\ last_error = FinalErrorMsg(max_reconnect_attempts)
        /\ (InitializeReturned(t) /\ last_att[t] # SuccessfulAttempt) => ret[t] = "false"

C7_Witness ==
    /\ InitializeReturned(1)
    /\ ret[1] = "false"
    /\ logins[1] = 3
    /\ last_error = FinalErrorMsg(3)

\* ---- C8
\* C8: the wait before login attempt k > 1 is base_delay * 2^(k-2); there is
\* no wait before attempt 1 and none after the last attempt, so an
\* initialize() that made n attempts made n-1 waits.
C8_BackoffDelays ==
    \A t \in Threads :
        RanInitialize(t) =>
            /\ \A k \in 2..(Len(sleeps[t]) + 1) :
                  sleeps[t][k - 1] = base_delay * (2 ^ (k - 2))
            /\ pc[t] = "init_login" => Len(sleeps[t]) = attempt[t] - 1
            /\ InitializeReturned(t) => Len(sleeps[t]) = logins[t] - 1

C8_Witness ==
    /\ InitializeReturned(1)
    /\ ret[1] = "false"
    /\ max_reconnect_attempts = 3
    /\ base_delay = 1
    /\ sleeps[1] = <<1, 2>>

\* ---- C9
\* The state part and the step part of C9.
C9_ShutdownState ==
    \A t \in Threads :
        (op[t] = "shutdown" /\ pc[t] = "done") =>
            /\ status = DISCONNECTED
            /\ Len(logouts[t]) <= 1
            /\ logouts[t] # <<>> => last_error = NoError
            /\ resp[t] = NoResponse

C9_ShutdownStep ==
    \A t \in Threads :
        /\ (op[t] = "shutdown" /\ pc[t] = "sd_check" /\ status = DISCONNECTED) =>
              /\ pc'[t] = "done"
              /\ logouts'[t] = <<>>
              /\ UNCHANGED <<status, last_error>>
        /\ pc[t] = "sd_logout" =>
              /\ status' = DISCONNECTED
              /\ pend'[t] = NoError
              /\ pc'[t] = "set_error"
              /\ cont'[t] = "done"

C10_ReadyStep ==
    \A t \in Threads :
        (pc[t] = "ready_check" /\ pc'[t] # "ready_check") =>
            /\ resp'[t].code = 200 <=> status = CONNECTED
            /\ resp'[t].code = 503 <=> status \in {DISCONNECTED, RECONNECTING}

\* C10: the readiness endpoint answers 200 when the status it reads is
\* Connected and 503 when it is Disconnected or Reconnecting, whatever the
\* other threads are doing.
C10_ReadyIffConnected == [][C10_ReadyStep]_vars

C10_Witness ==
    /\ op[1] = "ready"
    /\ pc[1] = "ready_body"
    /\ resp[1].code = 503
    /\ status = RECONNECTING
    /\ pc[2] = "init_login"

====
